---- MODULE Spec2Model ----
(***************************************************************************)
(* Verification model of the kuaby-auto ad-copy backend.                   *)
(*                                                                         *)
(* The module holds one state machine per subsystem; each subsystem has    *)
(* its own specification over the shared variable tuple and leaves the     *)
(* other subsystems' variables unchanged:                                  *)
(*                                                                         *)
(*   SpecGen       projects, the generateAdCopy procedure and the          *)
(*                 GenerationRecords it persists                           *)
(*   SpecCache     the interpretation cache and the asset interpreter,     *)
(*                 calls interleaving at every await                       *)
(*   SpecCacheSeq  the same operations, one call at a time                 *)
(*   SpecBatch     one interpretAssets call over a list of assets          *)
(*   SpecSpeech    GoogleSpeechService.transcribeAudioAuto and the audio   *)
(*                 object it uploads for long recordings                   *)
(*   SpecTemp      the temp files of the asset pipelines                   *)
(*   SpecDbx       Dropbox credentials, token refresh and file listing     *)
(*   SpecDbxSeq    the same, with credentials changing between calls only  *)
(*   SpecScrape    WebScraperService.scrapeContent and the landing page    *)
(*                 cache                                                   *)
(*   SpecScrapeBatch  scrapeMultipleUrls and the landing-page stage of     *)
(*                 generateForProject, on top of scrapeContent             *)
(*   SpecTpl       PromptTemplateService calls interleaving at every await *)
(*   SpecTplSeq    the same calls, one at a time                           *)
(*   SpecBp        buildPromptFromTemplate                                 *)
(*   SpecFb        FacebookAdCopyGenerator.generateFacebookAdCopy          *)
(*   SpecScrapeGc  WebScraperService.cleanupCache next to one scraper      *)
(*   SpecRd        the placeholder replacement of one template section     *)
(*   SpecPa        processProjectAssets, and processAssets followed by     *)
(*                 interpretAssets, for one asset                          *)
(*   SpecClean     one CleanupMonitor.performCleanup run next to the       *)
(*                 ingestion pipeline                                      *)
(*   SpecCleanTwo  two performCleanup runs, interleaving                   *)
(*                                                                         *)
(* Every await of the source is one step: the effect of the awaited        *)
(* operation together with the synchronous code that runs up to the next   *)
(* await.  Time is counted in seconds.                                     *)
(***************************************************************************)
EXTENDS Integers, Sequences, FiniteSets, TLC

(***************************************************************************)
(* Bounds of the model                                                     *)
(***************************************************************************)
MaxVariations == 2
MaxBlocks == 1
MaxSlack == 1
MaxBatch == 3
MaxGcCalls == 2
MaxTokens == 2

(***************************************************************************)
(* Fixed value sets                                                        *)
(***************************************************************************)
Users == {"u1", "u2"}
ProjectIds == {"p1", "p2"}
UnknownProjectId == "px"    \* an id no project is ever created with
Calls == {"c1", "c2"}
VariationCounts == 1..MaxVariations
Statuses == {"draft", "processing", "completed", "failed"}
NoProject == [userId |-> "none", variationCount |-> 0, status |-> "none"]

VARIABLES
  apiKey,        \* process.env.GOOGLE_AI_API_KEY is set
  projects,      \* ad_copy_project rows, by id (NoProject: no row)
  generations,   \* ad_copy_generation rows
  gen,           \* the generateAdCopy calls, by call
  now,           \* the clock (Date.now()), in seconds
  cache,         \* asset_interpretation_cache rows
  ip,            \* the interpreter and cache calls, by caller
  bucket,        \* the audio objects in the storage bucket
  sp,            \* the transcribeAudioAuto calls, by call
  temp,          \* the files in the temp directories
  tp,            \* the asset pipelines, by caller
  creds,         \* integration rows, by id (NoCred: no row)
  dbx,           \* the DropboxService calls, by caller
  pages,         \* landing_page_cache rows
  sc,            \* the scrapeContent calls, by caller
  sb,            \* the procedure that scrapes a list of urls
  templates,     \* prompt_template rows, by id
  tc,            \* the PromptTemplateService calls, by caller
  fb,            \* the generateFacebookAdCopy call
  bp,            \* the buildPromptFromTemplate calls on one template
  cc,            \* the cleanupCache calls on the landing page cache
  rd,            \* the rendering of one template section
  pa,            \* the asset procedure of the router, for one asset
  tmpdir,        \* the files of the temp directory, by name
  gcs,           \* the objects of the audio bucket, by name
  cm,            \* the performCleanup runs, by run
  pl             \* what the ingestion pipeline holds on to

genVars == <<apiKey, projects, generations, gen>>
cacheVars == <<now, cache, ip>>
speechVars == <<bucket, sp>>

\* the variables of the subsystems other than generation and interpretation
tempVars == <<temp, tp>>
dbxVars == <<creds, dbx>>
scrapeVars == <<pages, sc>>
batchVars == <<sb>>
tplVars == <<templates, tc>>
cleanVars == <<tmpdir, gcs, cm, pl>>
lateVars == <<cc, rd, pa, cleanVars>>
moreVars == <<batchVars, tplVars, fb, bp, lateVars>>
extVars == <<speechVars, tempVars, dbxVars, scrapeVars, moreVars>>

vars ==
  <<apiKey, projects, generations, gen, now, cache, ip, bucket, sp, temp, tp,
    creds, dbx, pages, sc, sb, templates, tc, fb, bp, cc, rd, pa,
    tmpdir, gcs, cm, pl>>

(***************************************************************************)
(* AdCopyGenerator: parsing of the model output                            *)
(*                                                                         *)
(* The generated text is the sequence of the blocks that follow its        *)
(* "VARIATION n:" markers; a block records which labelled fields it has.   *)
(***************************************************************************)
Blocks == { [headline |-> TRUE, body |-> TRUE, cta |-> TRUE],
            [headline |-> FALSE, body |-> TRUE, cta |-> FALSE] }

ModelTexts == UNION { [1..n -> Blocks] : n \in 0..MaxBlocks }

Min(a, b) == IF a < b THEN a ELSE b

\* a field taken from the block, or the placeholder that embeds the index
Field(present, label, i) ==
  IF present THEN [src |-> "model", label |-> label, n |-> i]
  ELSE [src |-> "placeholder", label |-> label, n |-> i]

ParsedVariation(block, i) ==
  [ variationNumber |-> i,
    headline |-> Field(block.headline, "Headline", i),
    body |-> Field(block.body, "Body text", i),
    callToAction |-> Field(block.cta, "CTA", i) ]

FallbackVariation(num) ==
  [ variationNumber |-> num,
    headline |-> [src |-> "fallback", label |-> "Compelling Headline", n |-> num],
    body |-> [src |-> "fallback", label |-> "Engaging body text", n |-> num],
    callToAction |-> [src |-> "fallback", label |-> "Act Now", n |-> num] ]

parseGeneratedContent(generatedText, expectedCount) ==
  LET parsed == Min(Len(generatedText), expectedCount)
  IN [ i \in 1..expectedCount |->
         IF i <= parsed THEN ParsedVariation(generatedText[i], i)
         ELSE FallbackVariation(i) ]

(***************************************************************************)
(* Project store                                                           *)
(***************************************************************************)
\* db.select().from(adCopyProject).where(id = p AND userId = u)
OwnedBy(p, u) ==
  /\ p \in ProjectIds
  /\ projects[p] # NoProject
  /\ projects[p].userId = u

\* mutant of SetStatus: the update is filtered by the project id alone
SetStatus_AnyUser(p, u, s) ==
  IF p \in ProjectIds /\ projects[p] # NoProject
  THEN [projects EXCEPT ![p].status = s]
  ELSE projects

\* db.update(adCopyProject).set({status}).where(id = p AND userId = u)
SetStatus(p, u, s) ==
  IF OwnedBy(p, u)
  THEN [projects EXCEPT ![p].status = s]
  ELSE projects

\* adCopyRouter.createProject: a fresh id, status draft
createProject(u, n) ==
  /\ \E p \in ProjectIds :
       /\ projects[p] = NoProject
       /\ projects' = [projects EXCEPT ![p] =
                         [userId |-> u, variationCount |-> n, status |-> "draft"]]
  /\ UNCHANGED <<apiKey, generations, gen, cacheVars, extVars>>

(***************************************************************************)
(* adCopyRouter.generateAdCopy and AdCopyGenerator.generateForProject      *)
(***************************************************************************)
IdleCall ==
  [ pc |-> "idle", projectId |-> "none", userId |-> "none",
    variationCount |-> 0, success |-> FALSE, modelOk |-> FALSE,
    variations |-> <<>>, k |-> 0 ]

\* the call is inside the procedure
GenRunning(c) == gen[c].pc \notin {"idle", "returned", "thrown"}

\* the call has terminated
GenTerminated(c) == gen[c].pc \in {"returned", "thrown"}

\* router lines 635-655: status := processing, then new AdCopyGenerator()
\* (throws without the API key) and the call of generateForProject
GenStart(c, u, p) ==
  /\ gen[c].pc = "idle"
  /\ p \in ProjectIds => projects[p] # NoProject
  /\ projects' = SetStatus(p, u, "processing")
  /\ gen' = [gen EXCEPT ![c] =
       [IdleCall EXCEPT !.pc = IF apiKey THEN "load" ELSE "catch",
                        !.projectId = p, !.userId = u]]
  /\ UNCHANGED <<apiKey, generations, cacheVars, extVars>>

\* generateForProject lines 294-304: the project must exist and be the user's
GenLoadProject(c) ==
  /\ gen[c].pc = "load"
  /\ gen' = IF OwnedBy(gen[c].projectId, gen[c].userId)
            THEN [gen EXCEPT ![c].pc = "context",
                    ![c].variationCount = projects[gen[c].projectId].variationCount]
            ELSE [gen EXCEPT ![c].pc = "final"]
  /\ UNCHANGED <<apiKey, projects, generations, cacheVars, extVars>>

\* generateForProject lines 315-383: cached interpretations and scraped pages;
\* every per-item error is caught, the context is always assembled
GenGatherContext(c) ==
  /\ gen[c].pc = "context"
  /\ gen' = [gen EXCEPT ![c].pc = "model"]
  /\ UNCHANGED <<apiKey, projects, generations, cacheVars, extVars>>

\* AdCopyGenerator.generateAdCopy lines 70-127: one model call; a failure is
\* returned as success=false, a text is parsed into variationCount variations
GenModelCall(c) ==
  /\ gen[c].pc = "model"
  /\ \/ gen' = [gen EXCEPT ![c].pc = "final"]
     \/ \E text \in ModelTexts :
          LET vs == parseGeneratedContent(text, gen[c].variationCount)
          IN gen' = [gen EXCEPT ![c].modelOk = TRUE,
                                ![c].success = TRUE,
                                ![c].variations = vs,
                                ![c].k = 1,
                                ![c].pc = IF Len(vs) = 0 THEN "final" ELSE "save"]
  /\ UNCHANGED <<apiKey, projects, generations, cacheVars, extVars>>

\* saveGeneratedAdCopy lines 263-282: one insert per variation, in order; an
\* insert that throws ends the loop and is caught at generateForProject:400
GenSaveOne(c) ==
  /\ gen[c].pc = "save"
  /\ \/ /\ generations' = generations \cup
             { [ projectId |-> gen[c].projectId, run |-> c,
                 variation |-> gen[c].variations[gen[c].k] ] }
        /\ gen' = IF gen[c].k = Len(gen[c].variations)
                  THEN [gen EXCEPT ![c].variations = <<>>, ![c].k = 0,
                                   ![c].pc = "final"]
                  ELSE [gen EXCEPT ![c].k = @ + 1]
     \/ /\ gen' = [gen EXCEPT ![c].success = FALSE,
                              ![c].variations = <<>>, ![c].k = 0,
                              ![c].pc = "final"]
        /\ UNCHANGED generations
  /\ UNCHANGED <<apiKey, projects, cacheVars, extVars>>

\* router lines 657-681: status := completed | failed, then return or throw
GenFinalStatus(c) ==
  /\ gen[c].pc = "final"
  /\ projects' = SetStatus(gen[c].projectId, gen[c].userId,
                           IF gen[c].success THEN "completed" ELSE "failed")
  /\ gen' = [gen EXCEPT ![c].pc = IF gen[c].success THEN "returned" ELSE "catch"]
  /\ UNCHANGED <<apiKey, generations, cacheVars, extVars>>

\* mutant of GenCatch: the catch block rethrows without the status update
GenCatch_NoStatusWrite(c) ==
  /\ gen[c].pc = "catch"
  /\ gen' = [gen EXCEPT ![c].pc = "thrown"]
  /\ UNCHANGED <<apiKey, projects, generations, cacheVars, extVars>>

\* router lines 682-701: status := failed, then rethrow
GenCatch(c) ==
  /\ gen[c].pc = "catch"
  /\ projects' = SetStatus(gen[c].projectId, gen[c].userId, "failed")
  /\ gen' = [gen EXCEPT ![c].pc = "thrown"]
  /\ UNCHANGED <<apiKey, generations, cacheVars, extVars>>

(***************************************************************************)
(* AssetInterpretationService: the interpretation cache                    *)
(***************************************************************************)
SecondsPerDay == 86400
DefaultMaxAgeInDays == 30
MaxClock == DefaultMaxAgeInDays * SecondsPerDay + MaxSlack

FileIds == {"f1", "f2"}
FileTypes == {"image", "video"}
Procs == {"a1", "a2", "a3"}

NoRow == [dropboxFileId |-> "none"]

\* rows matching where(eq(dropboxFileId, id))
RowsFor(id) == { r \in cache : r.dropboxFileId = id }

\* getCachedInterpretation: select ... limit 1
getCachedInterpretation(id) ==
  IF RowsFor(id) = {} THEN NoRow ELSE CHOOSE r \in RowsFor(id) : TRUE

\* mutant of isInterpretationFresh: strict comparison, ageInDays < maxAgeInDays
isInterpretationFresh_Strict(id, maxAgeInDays) ==
  LET cached == getCachedInterpretation(id)
  IN IF cached = NoRow THEN FALSE
     ELSE (now - cached.updatedAt) \div SecondsPerDay < maxAgeInDays

\* isInterpretationFresh: ageInDays = age / one day, as a whole part and a
\* remainder; ageInDays <= maxAgeInDays
isInterpretationFresh(id, maxAgeInDays) ==
  LET cached == getCachedInterpretation(id)
  IN IF cached = NoRow THEN FALSE
     ELSE LET age == now - cached.updatedAt
              whole == age \div SecondsPerDay
              rest == age % SecondsPerDay
          IN whole < maxAgeInDays \/ (whole = maxAgeInDays /\ rest = 0)

\* db.update(...).set({interpretation, processingMethod, metadata, updatedAt})
\* .where(eq(dropboxFileId, id)): fileType is not among the columns set
UpdateRows(rows, a, t) ==
  { IF r.dropboxFileId = a.dropboxFileId
    THEN [r EXCEPT !.interpretation = a.interpretation,
                   !.processingMethod = a.processingMethod,
                   !.metadata = a.metadata,
                   !.updatedAt = t]
    ELSE r : r \in rows }

\* the row of db.insert(assetInterpretationCache).values({...})
NewRow(rowId, a, t) ==
  [ id |-> rowId, dropboxFileId |-> a.dropboxFileId, fileType |-> a.fileType,
    interpretation |-> a.interpretation,
    processingMethod |-> a.processingMethod, metadata |-> a.metadata,
    createdAt |-> t, updatedAt |-> t ]

\* schema: dropboxFileId is unique, an insert of a second row for it throws
InsertAllowed(id) == RowsFor(id) = {}

(***************************************************************************)
(* AssetInterpreter: interpretAsset, interpretAssets                       *)
(***************************************************************************)
Assets == { [dropboxFileId |-> "f1", fileType |-> "image"],
            [dropboxFileId |-> "f2", fileType |-> "video"] }

AssetLists == UNION { [1..n -> Assets] : n \in 1..MaxBatch }

\* arguments of direct cacheInterpretation calls
GivenValues ==
  { [ fileType |-> "image", interpretation |-> [kind |-> "given", by |-> "A"],
      processingMethod |-> "gemini_vision", metadata |-> [by |-> "A"] ],
    [ fileType |-> "video", interpretation |-> [kind |-> "given", by |-> "B"],
      processingMethod |-> "speech_to_text", metadata |-> [by |-> "B"] ] }

PutArgs ==
  { [ dropboxFileId |-> f, fileType |-> v.fileType,
      interpretation |-> v.interpretation,
      processingMethod |-> v.processingMethod, metadata |-> v.metadata ] :
    f \in FileIds, v \in GivenValues }

NoPut == [dropboxFileId |-> "none"]
EmptyText == [kind |-> "empty", by |-> "none"]
NoResult == [dropboxFileId |-> "none"]

IdleProc ==
  [ kind |-> "none", pc |-> "idle", assets |-> <<>>, results |-> <<>>,
    cached |-> NoRow, existing |-> NoRow, res |-> NoResult,
    put |-> NoPut, putTime |-> 0, threw |-> FALSE,
    calls |-> 0, miss |-> FALSE, freshSeen |-> FALSE, started |-> 0 ]

IpRunning(p) == ip[p].pc \notin {"idle", "done"}

\* the asset the loop of interpretAssets is at
CurAsset(p) == ip[p].assets[Len(ip[p].results) + 1]

\* interpretAsset lines 76-80
Dispatch(a) == IF a.fileType = "image" THEN "vision" ELSE "extract"

\* a result of interpretAsset; the last five fields record what the call
\* did: upstream calls made, cache row written, lookup found no row, the
\* freshness check saw a fresh entry, the upstream interpretation succeeded
Result(a, ok, hit, text, method, err) ==
  [ dropboxFileId |-> a.dropboxFileId, fileType |-> a.fileType,
    success |-> ok, fromCache |-> hit, interpretation |-> text,
    processingMethod |-> method, error |-> err,
    calls |-> 0, wrote |-> FALSE, miss |-> FALSE, freshSeen |-> FALSE,
    interpreted |-> FALSE, speech |-> "unasked" ]

\* the entry of id is within the 30-day TTL at this moment
EntryFresh(id) ==
  \E r \in cache :
    /\ r.dropboxFileId = id
    /\ now - r.updatedAt <= DefaultMaxAgeInDays * SecondsPerDay

\* mutant of FinishAsset: a failed asset ends the loop of interpretAssets
FinishAsset_AbortOnFailure(p, r, calls, wrote, seen) ==
  LET done == [r EXCEPT !.calls = calls, !.wrote = wrote, !.freshSeen = seen,
                        !.miss = ip[p].miss,
                        !.interpreted = ip[p].res # NoResult]
      rs == Append(ip[p].results, done)
      last == Len(rs) = Len(ip[p].assets) \/ ~r.success
  IN [ip EXCEPT ![p] =
        [IdleProc EXCEPT !.kind = ip[p].kind,
                         !.assets = ip[p].assets,
                         !.results = rs,
                         !.pc = IF last THEN "done" ELSE "lookup",
                         !.started = IF last THEN ip[p].started
                                     ELSE ip[p].started + 1]]

\* results.push(result) and the next iteration of the loop of interpretAssets
\* (or its return); r is completed with what the call did
FinishAsset(p, r, calls, wrote, seen) ==
  LET done == [r EXCEPT !.calls = calls, !.wrote = wrote, !.freshSeen = seen,
                        !.miss = ip[p].miss,
                        !.interpreted = ip[p].res # NoResult]
      rs == Append(ip[p].results, done)
      last == Len(rs) = Len(ip[p].assets)
  IN [ip EXCEPT ![p] =
        [IdleProc EXCEPT !.kind = ip[p].kind,
                         !.assets = ip[p].assets,
                         !.results = rs,
                         !.pc = IF last THEN "done" ELSE "lookup",
                         !.started = IF last THEN ip[p].started
                                     ELSE ip[p].started + 1]]

\* a failure result of the current asset is returned
FailAsset(p, method, err, calls) ==
  FinishAsset(p, Result(CurAsset(p), FALSE, FALSE, EmptyText, method, err),
              calls, FALSE, ip[p].freshSeen)

\* the clock advances by a second or by the 30-day TTL; the model follows
\* it for MaxSlack seconds around each multiple of the TTL
Tick(d) ==
  /\ now + d <= MaxClock
  /\ (now + d) % (DefaultMaxAgeInDays * SecondsPerDay) <= MaxSlack
  /\ now' = now + d
  /\ UNCHANGED <<genVars, extVars, cache, ip>>

\* interpretAssets(list) (interpretAsset for a list of one) is called
IpStartInterpret(p, list) ==
  /\ ip[p].pc = "idle"
  /\ ip' = [ip EXCEPT ![p] =
       [IdleProc EXCEPT !.kind = "interpret", !.pc = "lookup",
                        !.assets = list, !.started = 1]]
  /\ UNCHANGED <<genVars, extVars, now, cache>>

\* cacheInterpretation is called directly: line 54, now = new Date()
IpStartPut(p, args) ==
  /\ ip[p].pc = "idle"
  /\ ip' = [ip EXCEPT ![p] =
       [IdleProc EXCEPT !.kind = "put", !.pc = "put_check", !.put = args,
                        !.putTime = now]]
  /\ UNCHANGED <<genVars, extVars, now, cache>>

\* interpretAsset lines 51-55: the cache lookup
IpLookup(p) ==
  /\ ip[p].pc = "lookup"
  /\ LET c == getCachedInterpretation(CurAsset(p).dropboxFileId)
     IN ip' = [ip EXCEPT ![p].cached = c,
                         ![p].miss = c = NoRow,
                         ![p].pc = IF c = NoRow THEN Dispatch(CurAsset(p))
                                   ELSE "fresh"]
  /\ UNCHANGED <<genVars, extVars, now, cache>>

\* interpretAsset lines 56-72: the freshness check and the cache-hit return
IpFreshCheck(p) ==
  /\ ip[p].pc = "fresh"
  /\ LET a == CurAsset(p)
         seen == EntryFresh(a.dropboxFileId)
     IN IF isInterpretationFresh(a.dropboxFileId, DefaultMaxAgeInDays)
        THEN ip' = FinishAsset(p, Result(a, TRUE, TRUE,
                                         ip[p].cached.interpretation,
                                         ip[p].cached.processingMethod, ""),
                               ip[p].calls, FALSE, seen)
        ELSE ip' = [ip EXCEPT ![p].freshSeen = seen, ![p].pc = Dispatch(a)]
  /\ UNCHANGED <<genVars, extVars, now, cache>>

\* interpretAsset lines 83-96: cacheInterpretation(...) is called with the
\* successful result: line 54 now = new Date(), then the lookup of line 58
CallPut(p, res) ==
  [ip EXCEPT ![p].res = res,
             ![p].put = [ dropboxFileId |-> res.dropboxFileId,
                          fileType |-> res.fileType,
                          interpretation |-> res.interpretation,
                          processingMethod |-> res.processingMethod,
                          metadata |-> [by |-> p] ],
             ![p].putTime = now,
             ![p].calls = @ + 1,
             ![p].pc = "put_check"]

\* interpretImage lines 119-173: the vision call; a failure comes back as
\* success=false with the service's error
IpVision(p) ==
  /\ ip[p].pc = "vision"
  /\ \/ ip' = CallPut(p, Result(CurAsset(p), TRUE, FALSE,
                               [kind |-> "vision", by |-> p],
                               "gemini_vision", ""))
     \/ \E err \in {"Image analysis failed",
                    "No interpretation generated for the image"} :
          ip' = FailAsset(p, "gemini_vision", err, ip[p].calls + 1)
  /\ UNCHANGED <<genVars, extVars, now, cache>>

\* interpretVideo lines 186-206: ffmpeg extracts the audio track
IpExtractAudio(p) ==
  /\ ip[p].pc = "extract"
  /\ \/ ip' = [ip EXCEPT ![p].calls = @ + 1, ![p].pc = "speech"]
     \/ ip' = FailAsset(p, "speech_to_text", "Audio extraction failed",
                        ip[p].calls + 1)
  /\ UNCHANGED <<genVars, extVars, now, cache>>

\* enhanceVideoInterpretation lines 283-293
enhanceVideoInterpretation(transcript, p) ==
  IF transcript = "" THEN [kind |-> "silent", by |-> p]
  ELSE [kind |-> "transcript", by |-> p]

\* what the recognition request of the speech service answers: no results,
\* results whose transcript is empty, results with words, or it throws
SpeechResponses == {"no_results", "empty", "words", "throws"}

\* transcribeShortAudio / transcribeAudio: the SpeechTranscriptionResult
transcribeAudioAuto(response) ==
  CASE response = "no_results" ->
         [success |-> FALSE, transcript |-> "",
          error |-> "No speech detected in audio"]
    [] response = "throws" ->
         [success |-> FALSE, transcript |-> "",
          error |-> "Speech transcription failed"]
    [] response = "empty" ->
         [success |-> TRUE, transcript |-> "", error |-> ""]
    [] OTHER ->
         [success |-> TRUE, transcript |-> "words", error |-> ""]

\* mutant of IpTranscribe: a failed transcription is cached like a result
IpTranscribe_CachesFailure(p) ==
  /\ ip[p].pc = "speech"
  /\ \E response \in SpeechResponses :
       LET speechResult == transcribeAudioAuto(response)
       IN ip' = CallPut(p,
            [Result(CurAsset(p), speechResult.success, FALSE,
                    IF speechResult.success
                    THEN enhanceVideoInterpretation(speechResult.transcript, p)
                    ELSE EmptyText,
                    "speech_to_text", speechResult.error)
               EXCEPT !.speech = response])
  /\ UNCHANGED <<genVars, extVars, now, cache>>

\* interpretVideo lines 208-258: transcribeAudioAuto; a result that is not a
\* success is returned as the failure it is, a success is enhanced
IpTranscribe(p) ==
  /\ ip[p].pc = "speech"
  /\ \E response \in SpeechResponses :
       LET speechResult == transcribeAudioAuto(response)
       IN IF speechResult.success
          THEN ip' = CallPut(p,
                 [Result(CurAsset(p), TRUE, FALSE,
                         enhanceVideoInterpretation(speechResult.transcript, p),
                         "speech_to_text", "")
                    EXCEPT !.speech = response])
          ELSE ip' = FinishAsset(p,
                 [Result(CurAsset(p), FALSE, FALSE, EmptyText,
                         "speech_to_text", speechResult.error)
                    EXCEPT !.speech = response],
                 ip[p].calls + 1, FALSE, ip[p].freshSeen)
  /\ UNCHANGED <<genVars, extVars, now, cache>>

\* cacheInterpretation line 58: does a row exist?
IpPutCheck(p) ==
  /\ ip[p].pc = "put_check"
  /\ ip' = [ip EXCEPT ![p].existing =
                        getCachedInterpretation(ip[p].put.dropboxFileId),
                      ![p].pc = "put_write"]
  /\ UNCHANGED <<genVars, extVars, now, cache>>

\* cacheInterpretation lines 60-100: update when the lookup found a row, else
\* insert; an insert the unique constraint rejects throws
PutEffect(p) ==
  IF ip[p].existing # NoRow
  THEN [ok |-> TRUE, rows |-> UpdateRows(cache, ip[p].put, ip[p].putTime)]
  ELSE IF InsertAllowed(ip[p].put.dropboxFileId)
       THEN [ok |-> TRUE,
             rows |-> cache \cup
               { NewRow([by |-> p, n |-> Len(ip[p].results) + 1],
                        ip[p].put, ip[p].putTime) }]
       ELSE [ok |-> FALSE, rows |-> cache]

\* the write of cacheInterpretation and what follows it: the direct call
\* returns or throws; interpretAsset returns its result (line 99) or, when the
\* write threw, the failure result of its catch block (lines 100-113)
IpPutWrite(p) ==
  /\ ip[p].pc = "put_write"
  /\ LET e == PutEffect(p)
     IN /\ cache' = e.rows
        /\ ip' = IF ip[p].kind = "put"
                 THEN [ip EXCEPT ![p].pc = "done", ![p].threw = ~e.ok]
                 ELSE IF e.ok
                      THEN FinishAsset(p, ip[p].res, ip[p].calls, TRUE,
                                       ip[p].freshSeen)
                      ELSE FailAsset(p, "error", "Asset interpretation failed",
                                     ip[p].calls)
  /\ UNCHANGED <<genVars, extVars, now>>

(***************************************************************************)
(* GoogleSpeechService: transcribeAudioAuto, transcribeShortAudio and the  *)
(* long-form transcribeAudio with its bucket object                        *)
(***************************************************************************)
SpeechCalls == {"s1", "s2"}
ShortAudioLimit == 60
Durations == {ShortAudioLimit - 1, ShortAudioLimit}

NoUri == "none"
NoSpeechResult == [success |-> FALSE, transcript |-> "", error |-> "none"]

\* uploads: files saved to the bucket by the call; deletes: delete requests
\* sent by the call; deleteFailed: the last delete request was rejected
IdleSpeech ==
  [ pc |-> "idle", duration |-> 0, gcsUri |-> NoUri, result |-> NoSpeechResult,
    uploads |-> 0, deletes |-> 0, deleteFailed |-> FALSE ]

\* the other subsystems' variables
notSpeech ==
  <<genVars, cacheVars, tempVars, dbxVars, scrapeVars, moreVars>>

\* transcribeAudioAuto lines 1219-1231: the method is chosen by duration
SpStart(c, duration) ==
  /\ sp[c].pc = "idle"
  /\ sp' = [sp EXCEPT ![c].duration = duration,
                      ![c].pc = IF duration < ShortAudioLimit THEN "short"
                                ELSE "upload"]
  /\ UNCHANGED <<bucket, notSpeech>>

\* transcribeShortAudio lines 1119-1214: recognize and its result
SpRecognizeShort(c) ==
  /\ sp[c].pc = "short"
  /\ \E response \in SpeechResponses :
       sp' = [sp EXCEPT ![c].result = transcribeAudioAuto(response),
                        ![c].pc = "done"]
  /\ UNCHANGED <<bucket, notSpeech>>

\* transcribeAudio line 1016, uploadToStorage lines 967-984: the file is
\* saved to the bucket, or the save throws and the catch block returns the
\* failure (finally finds gcsUri null)
SpUpload(c) ==
  /\ sp[c].pc = "upload"
  /\ \/ /\ bucket' = bucket \cup {c}
        /\ sp' = [sp EXCEPT ![c].gcsUri = c, ![c].uploads = @ + 1,
                            ![c].pc = "recognize"]
     \/ /\ sp' = [sp EXCEPT ![c].result = transcribeAudioAuto("throws"),
                            ![c].pc = "done"]
        /\ UNCHANGED bucket
  /\ UNCHANGED notSpeech

\* transcribeAudio line 1041: longRunningRecognize starts the operation or
\* throws; a throw is caught (lines 1090-1106) and finally follows
SpRecognizeLong(c) ==
  /\ sp[c].pc = "recognize"
  /\ \/ sp' = [sp EXCEPT ![c].pc = "operation"]
     \/ sp' = [sp EXCEPT ![c].result = transcribeAudioAuto("throws"),
                         ![c].pc = "finally"]
  /\ UNCHANGED <<bucket, notSpeech>>

\* transcribeAudio lines 1042-1106: operation.promise() and the result built
\* from its response
SpOperation(c) ==
  /\ sp[c].pc = "operation"
  /\ \E response \in SpeechResponses :
       sp' = [sp EXCEPT ![c].result = transcribeAudioAuto(response),
                        ![c].pc = "finally"]
  /\ UNCHANGED <<bucket, notSpeech>>

\* mutant of SpDelete: a rejected delete propagates out of finally
SpDelete_Throws(c) ==
  /\ sp[c].pc = "finally"
  /\ sp[c].gcsUri # NoUri
  /\ \/ /\ bucket' = bucket \ {sp[c].gcsUri}
        /\ sp' = [sp EXCEPT ![c].deletes = @ + 1, ![c].pc = "done"]
     \/ /\ sp' = [sp EXCEPT ![c].deletes = @ + 1, ![c].deleteFailed = TRUE,
                            ![c].result = transcribeAudioAuto("throws"),
                            ![c].pc = "done"]
        /\ UNCHANGED bucket
  /\ UNCHANGED notSpeech

\* transcribeAudio lines 1107-1113, deleteFromStorage lines 989-1001: the
\* delete request of the finally block; its failure is logged and swallowed
SpDelete(c) ==
  /\ sp[c].pc = "finally"
  /\ sp[c].gcsUri # NoUri
  /\ \/ /\ bucket' = bucket \ {sp[c].gcsUri}
        /\ sp' = [sp EXCEPT ![c].deletes = @ + 1, ![c].pc = "done"]
     \/ /\ sp' = [sp EXCEPT ![c].deletes = @ + 1, ![c].deleteFailed = TRUE,
                            ![c].pc = "done"]
        /\ UNCHANGED bucket
  /\ UNCHANGED notSpeech

InitSpeech ==
  /\ bucket = {}
  /\ sp = [c \in SpeechCalls |-> IdleSpeech]

NextSpeech ==
  \/ \E c \in SpeechCalls, d \in Durations : SpStart(c, d)
  \/ \E c \in SpeechCalls : SpRecognizeShort(c)
  \/ \E c \in SpeechCalls : SpUpload(c)
  \/ \E c \in SpeechCalls : SpRecognizeLong(c)
  \/ \E c \in SpeechCalls : SpOperation(c)
  \/ \E c \in SpeechCalls : SpDelete(c)

(***************************************************************************)
(* Temporary files of the asset pipelines: processProjectAssets,           *)
(* processAssets followed by interpretAssets, and interpretVideo           *)
(***************************************************************************)
TempProcs == {"t1", "t2"}
Pipelines == {"processProjectAssets", "processAssets", "interpretVideo"}
TempLists == { <<"image">>, <<"video">>, <<"video", "image">> }

\* phase 2 of the processAssets pipeline is the interpretAssets procedure;
\* downloaded: the assets whose localPath is set; created: every temp file
\* the pipeline has created
IdlePipe ==
  [ kind |-> "none", pc |-> "idle", assets |-> <<>>, i |-> 0, phase |-> 1,
    downloaded |-> {}, created |-> {} ]

notTemp ==
  <<genVars, cacheVars, speechVars, dbxVars, scrapeVars, moreVars>>

DownloadFile(t, i) == [by |-> t, kind |-> "download", n |-> i]
AudioFile(t, i) == [by |-> t, kind |-> "audio", n |-> i]

\* the pc at which interpretAsset works on asset i
InterpretPc(t, i) ==
  IF tp[t].assets[i] = "image" THEN "vision" ELSE "extract"

\* the loop goes on to the next asset, or the procedure ends; q is the
\* pipeline's record after the work on asset i
NextAsset(t, q) ==
  LET rest == { j \in (q.i + 1)..Len(q.assets) :
                  q.phase = 2 => j \in q.downloaded }
      first == CHOOSE j \in q.downloaded :
                 \A k \in q.downloaded : j <= k
  IN IF rest # {}
     THEN LET j == CHOOSE j \in rest : \A k \in rest : j <= k
          IN [q EXCEPT !.i = j,
                       !.pc = IF q.phase = 1 THEN "check"
                              ELSE InterpretPc(t, j)]
     ELSE IF q.kind = "processAssets" /\ q.phase = 1
          THEN IF q.downloaded = {}
               THEN [q EXCEPT !.phase = 2, !.pc = "thrown"]
               ELSE [q EXCEPT !.phase = 2, !.i = first,
                              !.pc = InterpretPc(t, first)]
          ELSE [q EXCEPT !.pc = "done"]

\* interpretAsset has returned for asset i: processProjectAssets unlinks the
\* downloaded file (lines 355-364); interpretAssets unlinks nothing
AfterInterpret(t, files) ==
  /\ temp' = IF tp[t].kind = "processProjectAssets"
             THEN files \ {DownloadFile(t, tp[t].i)}
             ELSE files
  /\ tp' = [tp EXCEPT ![t] = NextAsset(t, tp[t])]

TpStart(t, kind, list) ==
  /\ tp[t].pc = "idle"
  /\ kind = "interpretVideo" => list = <<"video">>
  /\ tp' = [tp EXCEPT ![t] =
       [IdlePipe EXCEPT !.kind = kind, !.assets = list, !.i = 1,
                        !.pc = IF kind = "interpretVideo" THEN "extract"
                               ELSE "check"]]
  /\ UNCHANGED <<temp, notTemp>>

\* processProjectAssets lines 305-323, processAssets lines 446-464: an asset
\* with a cached interpretation is skipped
TpCheck(t) ==
  /\ tp[t].pc = "check"
  /\ \/ tp' = [tp EXCEPT ![t] = NextAsset(t, tp[t])]
     \/ tp' = [tp EXCEPT ![t].pc = "download"]
  /\ UNCHANGED <<temp, notTemp>>

\* downloadFile lines 167-208: the temp file is written, or the call throws;
\* processProjectAssets records download_failed and continues (lines
\* 335-345), processAssets stores localPath (lines 472-478) or rethrows
TpDownload(t) ==
  /\ tp[t].pc = "download"
  /\ LET f == DownloadFile(t, tp[t].i)
         got == [tp[t] EXCEPT !.created = @ \cup {f},
                              !.downloaded = @ \cup {tp[t].i}]
     IN \/ /\ temp' = temp \cup {f}
           /\ tp' = [tp EXCEPT ![t] =
                IF tp[t].kind = "processProjectAssets"
                THEN [got EXCEPT !.pc = InterpretPc(t, tp[t].i)]
                ELSE NextAsset(t, got)]
        \/ /\ UNCHANGED temp
           /\ tp' = [tp EXCEPT ![t] =
                IF tp[t].kind = "processProjectAssets"
                THEN NextAsset(t, tp[t])
                ELSE [tp[t] EXCEPT !.pc = "thrown"]]
  /\ UNCHANGED notTemp

\* interpretAsset of an image, or a cache hit: no temp file is involved
TpVision(t) ==
  /\ tp[t].pc = "vision"
  /\ AfterInterpret(t, temp)
  /\ UNCHANGED notTemp

\* extractAudio lines 374-440: ffmpeg writes the audio file, or fails
TpExtract(t) ==
  /\ tp[t].pc = "extract"
  /\ \/ /\ temp' = temp \cup {AudioFile(t, tp[t].i)}
        /\ tp' = [tp EXCEPT ![t].created = @ \cup {AudioFile(t, tp[t].i)},
                            ![t].pc = "speech"]
     \/ AfterInterpret(t, temp)
  /\ UNCHANGED notTemp

\* interpretVideo lines 208-216: transcribeAudioAuto returns (it catches its
\* own failures) and cleanupTempFile unlinks the audio file
TpSpeech(t) ==
  /\ tp[t].pc = "speech"
  /\ AfterInterpret(t, temp \ {AudioFile(t, tp[t].i)})
  /\ UNCHANGED notTemp

InitTemp ==
  /\ temp = {}
  /\ tp = [t \in TempProcs |-> IdlePipe]

NextTemp ==
  \/ \E t \in TempProcs, kind \in Pipelines, list \in TempLists :
       TpStart(t, kind, list)
  \/ \E t \in TempProcs : TpCheck(t)
  \/ \E t \in TempProcs : TpDownload(t)
  \/ \E t \in TempProcs : TpVision(t)
  \/ \E t \in TempProcs : TpExtract(t)
  \/ \E t \in TempProcs : TpSpeech(t)

(***************************************************************************)
(* DropboxService (the gateway) and the integration rows it reads          *)
(***************************************************************************)
MaxPages == 2

CredIds == {"i1", "i2"}
DbxCalls == {"d1"}
RefreshWindow == 5 * 60
NullTime == -1
NoCred == [userId |-> "none"]
NoToken == [by |-> "none", id |-> "none"]

\* names of the entries a listing page can hold
FileNames ==
  { [stem |-> "a", ext |-> ".JPG"], [stem |-> "b", ext |-> ".txt"],
    [stem |-> "c", ext |-> ".mp4"], [stem |-> ".mov", ext |-> ""] }
PageEntries ==
  { <<>>, << [stem |-> "c", ext |-> ".mp4"] >>,
    << [stem |-> "b", ext |-> ".txt"], [stem |-> "a", ext |-> ".JPG"] >>,
    << [stem |-> ".mov", ext |-> ""] >> }
HttpErrors == {401, 500}

imageExts == {".jpg", ".jpeg", ".png", ".gif", ".bmp", ".webp"}
videoExts == {".mp4", ".mov", ".avi", ".mkv", ".webm", ".m4v"}

toLowerCase(ext) == IF ext = ".JPG" THEN ".jpg" ELSE ext

\* listFiles lines 151-156: the filter applied to the entries of a page
mediaFiles(entries) ==
  SelectSeq(entries, LAMBDA file :
    toLowerCase(file.ext) \in imageExts \cup videoExts)

\* record: the row getActiveIntegration returned; needed: the expiry check
\* asked for a refresh; refreshCalls: requests sent to the token endpoint;
\* requests: the listing/download requests sent; fetched: the pages received
IdleDbx ==
  [ pc |-> "idle", op |-> "none", userId |-> "none", record |-> "none",
    stored |-> NoCred, needed |-> FALSE, accessToken |-> NoToken,
    refreshCalls |-> 0, issued |-> NoToken, requests |-> <<>>,
    fetched |-> <<>>, allFiles |-> <<>>, error |-> "none", status |-> 0 ]

notDbx == <<genVars, cache, ip, speechVars, scrapeVars, moreVars>>

DbxRunning(c) == dbx[c].pc \notin {"idle", "done", "failed"}

\* mutant of ActiveCreds: the query does not filter on isActive
ActiveCreds_AnyRow(u) ==
  { i \in CredIds : creds[i] # NoCred /\ creds[i].userId = u }

\* getActiveIntegration lines 36-46: the rows the query matches
ActiveCreds(u) ==
  { i \in CredIds : creds[i] # NoCred /\ creds[i].userId = u
                      /\ creds[i].isActive }

\* storeIntegration lines 140-170, handleDropboxCallback lines 195-288: a new
\* row is inserted, active, under a fresh id
Connect(u, hasRefresh, expiresAt) ==
  /\ \E i \in CredIds :
       /\ creds[i] = NoCred
       /\ i = CHOOSE j \in CredIds : creds[j] = NoCred
       /\ creds' = [creds EXCEPT ![i] =
            [ userId |-> u, isActive |-> TRUE,
              accessToken |-> [by |-> "connect", id |-> i],
              refreshToken |-> hasRefresh, tokenExpiresAt |-> expiresAt ]]
  /\ UNCHANGED <<dbx, now, temp, tp, notDbx>>

\* disconnectIntegration lines 68-106: the caller's row is set inactive
disconnectIntegration(u, i) ==
  /\ creds[i] # NoCred
  /\ creds[i].userId = u
  /\ creds' = [creds EXCEPT ![i].isActive = FALSE]
  /\ UNCHANGED <<dbx, now, temp, tp, notDbx>>

\* the listing or download request is sent with the token
SendRequest(q, token, cursor) ==
  [q EXCEPT !.requests = Append(@, [token |-> token, cursor |-> cursor]),
            !.pc = "response"]

\* refreshTokenIfNeeded lines 57-62: the expiry check
NeedsRefresh(expiresAt) ==
  expiresAt = NullTime \/ expiresAt - now < RefreshWindow

\* listFiles or downloadFile is called
DbxStart(c, u, op) ==
  /\ ~DbxRunning(c)
  /\ dbx' = [dbx EXCEPT ![c] =
       [IdleDbx EXCEPT !.pc = "select", !.op = op, !.userId = u]]
  /\ UNCHANGED <<creds, now, temp, tp, notDbx>>

\* getActiveIntegration lines 35-53 and refreshTokenIfNeeded lines 55-83 up
\* to its fetch; without a refresh the first request is sent at once
DbxGetActive(c) ==
  /\ dbx[c].pc = "select"
  /\ IF ActiveCreds(dbx[c].userId) = {}
     THEN dbx' = [dbx EXCEPT ![c].pc = "failed",
                             ![c].error = "No active Dropbox integration found"]
     ELSE \E i \in ActiveCreds(dbx[c].userId) :
            LET q == [dbx[c] EXCEPT !.record = i, !.stored = creds[i],
                        !.needed = NeedsRefresh(creds[i].tokenExpiresAt)]
            IN dbx' = [dbx EXCEPT ![c] =
                 IF ~q.needed
                 THEN SendRequest([q EXCEPT !.accessToken = creds[i].accessToken],
                                  creds[i].accessToken, 0)
                 ELSE IF ~creds[i].refreshToken
                      THEN [q EXCEPT !.pc = "failed",
                                     !.error = "No refresh token available"]
                      ELSE [q EXCEPT !.refreshCalls = @ + 1,
                                     !.pc = "refresh"]]
  /\ UNCHANGED <<creds, now, temp, tp, notDbx>>

\* mutant of DbxRefresh: after a rejected refresh the call goes on with the
\* token it has
DbxRefresh_FallsBack(c) ==
  /\ dbx[c].pc = "refresh"
  /\ \/ dbx' = [dbx EXCEPT ![c] =
            SendRequest([dbx[c] EXCEPT !.accessToken = dbx[c].stored.accessToken],
                        dbx[c].stored.accessToken, 0)]
     \/ dbx' = [dbx EXCEPT ![c].issued = [by |-> c, id |-> dbx[c].record],
                            ![c].pc = "store"]
  /\ UNCHANGED <<creds, now, temp, tp, notDbx>>

\* refreshTokenIfNeeded lines 85-89: the token endpoint answers
DbxRefresh(c) ==
  /\ dbx[c].pc = "refresh"
  /\ \/ dbx' = [dbx EXCEPT ![c].pc = "failed",
                            ![c].error = "Failed to refresh Dropbox token"]
     \/ dbx' = [dbx EXCEPT ![c].issued = [by |-> c, id |-> dbx[c].record],
                            ![c].pc = "store"]
  /\ UNCHANGED <<creds, now, temp, tp, notDbx>>

\* expires_in of the token endpoint's answer, in seconds (0: absent)
ExpiresIn == {0, 14400}

\* mutant of DbxStore: the request is sent with the token read from the row
\* before the refresh
DbxStore_StaleToken(c) ==
  /\ dbx[c].pc = "store"
  /\ \E e \in ExpiresIn :
       creds' = [creds EXCEPT ![dbx[c].record].accessToken = dbx[c].issued,
                              ![dbx[c].record].tokenExpiresAt =
                                 IF e # 0 THEN now + e ELSE NullTime]
  /\ dbx' = [dbx EXCEPT ![c] =
       SendRequest([dbx[c] EXCEPT !.accessToken = dbx[c].stored.accessToken],
                   dbx[c].stored.accessToken, 0)]
  /\ UNCHANGED <<now, temp, tp, notDbx>>

\* refreshTokenIfNeeded lines 91-104: the row (by id) gets the new token and
\* expiry; the new token is returned and the first request sent with it
DbxStore(c) ==
  /\ dbx[c].pc = "store"
  /\ \E e \in ExpiresIn :
       creds' = [creds EXCEPT ![dbx[c].record].accessToken = dbx[c].issued,
                              ![dbx[c].record].tokenExpiresAt =
                                 IF e # 0 THEN now + e ELSE NullTime]
  /\ dbx' = [dbx EXCEPT ![c] =
       SendRequest([dbx[c] EXCEPT !.accessToken = dbx[c].issued],
                   dbx[c].issued, 0)]
  /\ UNCHANGED <<now, temp, tp, notDbx>>

\* mutant of DbxListPage: the follow-up request starts the listing again
DbxListPage_NoCursor(c) ==
  /\ dbx[c].pc = "response" /\ dbx[c].op = "listFiles"
  /\ \/ \E st \in HttpErrors :
          dbx' = [dbx EXCEPT ![c].pc = "failed", ![c].status = st,
                             ![c].error = "Failed to list Dropbox files"]
     \/ \E entries \in PageEntries, has_more \in BOOLEAN :
          /\ Len(dbx[c].requests) = MaxPages => ~has_more
          /\ LET cursor == Len(dbx[c].requests)
                 q == [dbx[c] EXCEPT
                         !.fetched = Append(@, [entries |-> entries,
                                                cursor |-> cursor,
                                                has_more |-> has_more]),
                         !.allFiles = @ \o mediaFiles(entries)]
             IN dbx' = [dbx EXCEPT ![c] =
                  IF has_more THEN SendRequest(q, q.accessToken, 0)
                  ELSE [q EXCEPT !.pc = "done"]]
  /\ UNCHANGED <<creds, now, temp, tp, notDbx>>

\* listFiles lines 117-164: a page arrives; a non-2xx answer throws with the
\* status, else the media entries are appended and, while has_more, the next
\* request is sent with the page's cursor (the cursor of page n is n)
DbxListPage(c) ==
  /\ dbx[c].pc = "response" /\ dbx[c].op = "listFiles"
  /\ \/ \E st \in HttpErrors :
          dbx' = [dbx EXCEPT ![c].pc = "failed", ![c].status = st,
                             ![c].error = "Failed to list Dropbox files"]
     \/ \E entries \in PageEntries, has_more \in BOOLEAN :
          /\ Len(dbx[c].requests) = MaxPages => ~has_more
          /\ LET cursor == Len(dbx[c].requests)
                 q == [dbx[c] EXCEPT
                         !.fetched = Append(@, [entries |-> entries,
                                                cursor |-> cursor,
                                                has_more |-> has_more]),
                         !.allFiles = @ \o mediaFiles(entries)]
             IN dbx' = [dbx EXCEPT ![c] =
                  IF has_more THEN SendRequest(q, q.accessToken, cursor)
                  ELSE [q EXCEPT !.pc = "done"]]
  /\ UNCHANGED <<creds, now, temp, tp, notDbx>>

\* downloadFile lines 174-207: a non-2xx answer throws, else the body is
\* written to a temp file
DbxDownload(c) ==
  /\ dbx[c].pc = "response" /\ dbx[c].op = "downloadFile"
  /\ \/ /\ \E st \in HttpErrors :
             dbx' = [dbx EXCEPT ![c].pc = "failed", ![c].status = st,
                      ![c].error = "Failed to download file from Dropbox"]
        /\ UNCHANGED temp
     \/ /\ dbx' = [dbx EXCEPT ![c].pc = "done"]
        /\ temp' = temp \cup {[by |-> c, kind |-> "download", n |-> 0]}
  /\ UNCHANGED <<creds, now, tp, notDbx>>

InitDbx ==
  /\ creds = [i \in CredIds |-> NoCred]
  /\ dbx = [c \in DbxCalls |-> IdleDbx]

DbxStep(c) ==
  \/ DbxGetActive(c)
  \/ DbxRefresh(c)
  \/ DbxStore(c)
  \/ DbxListPage(c)
  \/ DbxDownload(c)

\* connecting, disconnecting and gateway calls, interleaving at every await
NextDbx ==
  \/ \E u \in Users, r \in BOOLEAN,
        e \in {NullTime, now + RefreshWindow - 1, now + RefreshWindow} :
       Connect(u, r, e)
  \/ \E u \in Users, i \in CredIds : disconnectIntegration(u, i)
  \/ \E c \in DbxCalls, u \in Users, op \in {"listFiles", "downloadFile"} :
       DbxStart(c, u, op)
  \/ \E c \in DbxCalls : DbxStep(c)

\* the same, connect and disconnect only while no gateway call is under way
NextDbxSeq ==
  \/ \E u \in Users, r \in BOOLEAN,
        e \in {NullTime, now + RefreshWindow - 1, now + RefreshWindow} :
       (\A c \in DbxCalls : ~DbxRunning(c)) /\ Connect(u, r, e)
  \/ \E u \in Users, i \in CredIds :
       (\A c \in DbxCalls : ~DbxRunning(c)) /\ disconnectIntegration(u, i)
  \/ \E c \in DbxCalls, u \in Users, op \in {"listFiles", "downloadFile"} :
       DbxStart(c, u, op)
  \/ \E c \in DbxCalls : DbxStep(c)

(***************************************************************************)
(* WebScraperService: scrapeContent and the landing page cache             *)
(***************************************************************************)
ScrapeCalls == {"w1", "w2"}
Urls == {"https://a"}
InvalidUrl == "not a url"
CACHE_DURATION_DAYS == 7
MinContentLength == 100
ContentLengths == {0, MinContentLength - 1, MinContentLength}

NoPage == [url |-> "none"]
NoScraped == [success |-> FALSE, content |-> [by |-> "none", length |-> 0],
              method |-> "none", processingTime |-> 0]

\* Date.now() - startTime of an attempt, in ms: an attempt that goes to the
\* network is taken to last a millisecond at least
ProcessingTimes == {1}

\* static: the outcome of the cheerio attempt; cheerio, puppeteer: the
\* attempts made; hit: the result is the cached entry; deleted: the lookup
\* deleted an expired row; wrote: cacheContent stored the result
IdleScrape ==
  [ pc |-> "idle", url |-> "none", useCache |-> FALSE, existing |-> NoPage,
    result |-> NoScraped, static |-> NoScraped, cheerio |-> 0,
    puppeteer |-> 0, hit |-> FALSE, deleted |-> FALSE, wrote |-> FALSE ]

\* the variables no step of scrapeContent changes, but for the callers' own
otherThanScrape == <<genVars, cache, ip, speechVars, tempVars, dbxVars>>
notScrape == <<otherThanScrape, moreVars>>

PagesFor(url) == { r \in pages : r.url = url }

PageOf(url) ==
  IF PagesFor(url) = {} THEN NoPage ELSE CHOOSE r \in PagesFor(url) : TRUE

\* mutant of PageStale: the age is taken from updatedAt
PageStale_UpdatedAt(r) ==
  LET age == now - r.updatedAt
  IN \/ age \div SecondsPerDay > CACHE_DURATION_DAYS
     \/ /\ age \div SecondsPerDay = CACHE_DURATION_DAYS
        /\ age % SecondsPerDay > 0

\* getCachedContent lines 44-50: daysDiff > CACHE_DURATION_DAYS
PageStale(r) ==
  LET age == now - r.createdAt
  IN \/ age \div SecondsPerDay > CACHE_DURATION_DAYS
     \/ /\ age \div SecondsPerDay = CACHE_DURATION_DAYS
        /\ age % SecondsPerDay > 0

\* the clock advances by a second or by the cache duration
ScrapeTick(d) ==
  /\ now + d <= CACHE_DURATION_DAYS * SecondsPerDay + MaxSlack
  /\ (now + d) % (CACHE_DURATION_DAYS * SecondsPerDay) <= MaxSlack
  /\ now' = now + d
  /\ UNCHANGED <<pages, sc, notScrape>>

\* scrapeContent lines 427-441, called by a caller that has no call running:
\* new URL(url) throws for an invalid url and the catch block returns the
\* failure; else the cache or cheerio is asked
Entered(url, useCache) ==
  [IdleScrape EXCEPT !.url = url, !.useCache = useCache,
                     !.pc = IF url = InvalidUrl THEN "done"
                            ELSE IF useCache THEN "cache_read"
                            ELSE "cheerio"]

ScrapeStart(c, url, useCache) ==
  /\ sc[c].pc \in {"idle", "done"}
  /\ sc' = [sc EXCEPT ![c] = Entered(url, useCache)]
  /\ UNCHANGED <<pages, now, notScrape>>

\* getCachedContent lines 34-72: no row is a miss, a stale row is to be
\* deleted, a fresh row is returned by scrapeContent (lines 436-441)
ScrapeCacheRead(c) ==
  /\ sc[c].pc = "cache_read"
  /\ LET r == PageOf(sc[c].url)
     IN sc' = [sc EXCEPT ![c] =
          IF r = NoPage THEN [sc[c] EXCEPT !.pc = "cheerio"]
          ELSE IF PageStale(r) THEN [sc[c] EXCEPT !.pc = "cache_delete"]
          ELSE [sc[c] EXCEPT !.pc = "done", !.hit = TRUE,
                  !.result = [success |-> TRUE, content |-> r.content,
                              method |-> "cheerio",
                              processingTime |-> 0]]]
  /\ UNCHANGED <<pages, now, notScrape>>

\* getCachedContent lines 51-53: the delete of the stale row, then a miss
ScrapeCacheDelete(c) ==
  /\ sc[c].pc = "cache_delete"
  /\ pages' = pages \ PagesFor(sc[c].url)
  /\ sc' = [sc EXCEPT ![c].deleted = TRUE, ![c].pc = "cheerio"]
  /\ UNCHANGED <<now, notScrape>>

\* scrapeContent lines 454-459: a successful result is cached when useCache
AfterScrape(q) ==
  IF q.result.success /\ q.useCache THEN [q EXCEPT !.pc = "put_check"]
  ELSE [q EXCEPT !.pc = "done"]

\* the outcomes of a scraping attempt by method m of call c
Scraped(c, m) ==
  { [success |-> FALSE, content |-> [by |-> "none", length |-> 0],
     method |-> m, processingTime |-> t] : t \in ProcessingTimes }
  \cup { [success |-> TRUE, content |-> [by |-> c, length |-> n],
          method |-> m, processingTime |-> t] :
            n \in ContentLengths, t \in ProcessingTimes }

\* mutant of ScrapeCheerio: content of exactly 100 characters falls back too
ScrapeCheerio_AtMost(c) ==
  /\ sc[c].pc = "cheerio"
  /\ \E r \in Scraped(c, "cheerio") :
       LET q == [sc[c] EXCEPT !.result = r, !.static = r, !.cheerio = @ + 1]
       IN sc' = [sc EXCEPT ![c] =
            IF ~r.success \/ r.content.length <= MinContentLength
            THEN [q EXCEPT !.pc = "puppeteer"]
            ELSE AfterScrape(q)]
  /\ UNCHANGED <<pages, now, notScrape>>

\* scrapeContent lines 443-452: scrapeWithCheerio and the fallback decision
ScrapeCheerio(c) ==
  /\ sc[c].pc = "cheerio"
  /\ \E r \in Scraped(c, "cheerio") :
       LET q == [sc[c] EXCEPT !.result = r, !.static = r, !.cheerio = @ + 1]
       IN sc' = [sc EXCEPT ![c] =
            IF ~r.success \/ r.content.length < MinContentLength
            THEN [q EXCEPT !.pc = "puppeteer"]
            ELSE AfterScrape(q)]
  /\ UNCHANGED <<pages, now, notScrape>>

\* scrapeContent line 451: scrapeWithPuppeteer
ScrapePuppeteer(c) ==
  /\ sc[c].pc = "puppeteer"
  /\ \E r \in Scraped(c, "puppeteer") :
       sc' = [sc EXCEPT ![c] =
         AfterScrape([sc[c] EXCEPT !.result = r, !.puppeteer = @ + 1])]
  /\ UNCHANGED <<pages, now, notScrape>>

\* cacheContent lines 87-92: does a row for the url exist?
ScrapePutCheck(c) ==
  /\ sc[c].pc = "put_check"
  /\ sc' = [sc EXCEPT ![c].existing = PageOf(sc[c].url),
                      ![c].pc = "put_write"]
  /\ UNCHANGED <<pages, now, notScrape>>

\* cacheContent lines 94-118: update of content and updatedAt, or insert; an
\* insert the unique url rejects is caught and logged
ScrapePutWrite(c) ==
  /\ sc[c].pc = "put_write"
  /\ IF sc[c].existing # NoPage
     THEN /\ pages' = { IF r.url = sc[c].url
                        THEN [r EXCEPT !.content = sc[c].result.content,
                                       !.updatedAt = now]
                        ELSE r : r \in pages }
          /\ sc' = [sc EXCEPT ![c].pc = "done",
                              ![c].wrote = PagesFor(sc[c].url) # {}]
     ELSE IF PagesFor(sc[c].url) = {}
          THEN /\ pages' = pages \cup
                    { [url |-> sc[c].url, content |-> sc[c].result.content,
                       createdAt |-> now, updatedAt |-> now] }
               /\ sc' = [sc EXCEPT ![c].pc = "done", ![c].wrote = TRUE]
          ELSE /\ UNCHANGED pages
               /\ sc' = [sc EXCEPT ![c].pc = "done"]
  /\ UNCHANGED <<now, notScrape>>

InitScrape ==
  /\ pages = {}
  /\ sc = [c \in ScrapeCalls |-> IdleScrape]

NextScrape ==
  \/ \E d \in {1, CACHE_DURATION_DAYS * SecondsPerDay} : ScrapeTick(d)
  \/ \E c \in ScrapeCalls, url \in Urls \cup {InvalidUrl}, u \in BOOLEAN :
       ScrapeStart(c, url, u)
  \/ \E c \in ScrapeCalls : ScrapeCacheRead(c)
  \/ \E c \in ScrapeCalls : ScrapeCacheDelete(c)
  \/ \E c \in ScrapeCalls : ScrapeCheerio(c)
  \/ \E c \in ScrapeCalls : ScrapePuppeteer(c)
  \/ \E c \in ScrapeCalls : ScrapePutCheck(c)
  \/ \E c \in ScrapeCalls : ScrapePutWrite(c)

(***************************************************************************)
(* Scraping a list of urls: WebScraperService.scrapeMultipleUrls, called   *)
(* by adCopyRouter.scrapeLandingPages, and the landing-page stage of       *)
(* AdCopyGenerator.generateForProject                                      *)
(***************************************************************************)
MaxUrls == 2
AnyUrl == Urls \cup {InvalidUrl}
UrlLists == UNION { [1..n -> AnyUrl] : n \in 0..MaxUrls }
BatchCaller == "w1"

\* the element a caller keeps of a returned ScrapedContent; hit and fetches
\* record how scrapeContent came by it
Kept(q) ==
  [ url |-> q.url, success |-> q.result.success,
    processingTime |-> q.result.processingTime,
    hit |-> q.hit, fetches |-> q.cheerio + q.puppeteer ]

\* delays: the setTimeout waits the loop has made
IdleBatch ==
  [ proc |-> "none", pc |-> "idle", urls |-> <<>>, useCache |-> FALSE,
    results |-> <<>>, delays |-> 0 ]

notBatch == <<otherThanScrape, tplVars, fb, bp, lateVars>>

AllReturned == \A c \in ScrapeCalls : sc[c].pc \in {"idle", "done"}

\* scrapeMultipleUrls lines 480-486: results = [] and the loop is entered
SmStart(urls, useCache) ==
  /\ sb.pc \in {"idle", "done"}
  /\ AllReturned
  /\ sb' = [IdleBatch EXCEPT !.proc = "scrapeMultipleUrls", !.urls = urls,
                             !.useCache = useCache,
                             !.pc = IF urls = <<>> THEN "done" ELSE "call"]
  /\ sc' = [c \in ScrapeCalls |-> IdleScrape]
  /\ UNCHANGED <<pages, now, notBatch>>

\* line 489: this.scrapeContent(url, useCache) for the next url
SmCall ==
  /\ sb.pc = "call"
  /\ sc' = [sc EXCEPT ![BatchCaller] =
       Entered(sb.urls[Len(sb.results) + 1], sb.useCache)]
  /\ sb' = [sb EXCEPT !.pc = "await"]
  /\ UNCHANGED <<pages, now, notBatch>>

\* mutant of SmCollect: a failed url ends the loop
SmCollect_AbortOnFailure ==
  /\ sb.pc = "await"
  /\ sc[BatchCaller].pc = "done"
  /\ sb' = [sb EXCEPT !.results = Append(@, Kept(sc[BatchCaller])),
                      !.pc = IF sc[BatchCaller].result.success THEN "delay"
                             ELSE "done"]
  /\ sc' = [sc EXCEPT ![BatchCaller] = IdleScrape]
  /\ UNCHANGED <<pages, now, notBatch>>

\* lines 489-490: the awaited result is pushed and the call's locals are
\* gone (scrapeContent catches its own errors, so the catch of lines 494-507
\* is not entered)
SmCollect ==
  /\ sb.pc = "await"
  /\ sc[BatchCaller].pc = "done"
  /\ sb' = [sb EXCEPT !.results = Append(@, Kept(sc[BatchCaller])),
                      !.pc = "delay"]
  /\ sc' = [sc EXCEPT ![BatchCaller] = IdleScrape]
  /\ UNCHANGED <<pages, now, notBatch>>

\* lines 492-493: the wait of 1000 ms, then the next url or the return
SmDelay ==
  /\ sb.pc = "delay"
  /\ sb' = [sb EXCEPT !.delays = @ + 1,
                      !.pc = IF Len(sb.results) = Len(sb.urls) THEN "done"
                             ELSE "call"]
  /\ UNCHANGED <<pages, sc, now, notBatch>>

\* scrapeLandingPages lines 611-615
successCount(results) ==
  Cardinality({ i \in DOMAIN results : results[i].success })

fromCacheCount(results) ==
  Cardinality({ i \in DOMAIN results : results[i].processingTime = 0 })

\* the urls of a project with one landing page url per concurrent mapper
ProjectUrls == [ScrapeCalls -> AnyUrl]

\* generateForProject lines 351-358: landingPageUrls.map(async ...) enters
\* scrapeContent(url) for every url before any of them is answered
GfpStart(u) ==
  /\ sb.pc \in {"idle", "done"}
  /\ AllReturned
  /\ sc' = [c \in ScrapeCalls |-> Entered(u[c], TRUE)]
  /\ sb' = [IdleBatch EXCEPT !.proc = "generateForProject", !.pc = "all",
                             !.urls = <<u["w1"], u["w2"]>>,
                             !.useCache = TRUE]
  /\ UNCHANGED <<pages, now, notBatch>>

\* generateForProject lines 377-378: await Promise.all(scrapingPromises)
GfpJoin ==
  /\ sb.pc = "all"
  /\ AllReturned
  /\ sb' = [sb EXCEPT !.results = <<Kept(sc["w1"]), Kept(sc["w2"])>>,
                      !.pc = "done"]
  /\ sc' = [c \in ScrapeCalls |-> IdleScrape]
  /\ UNCHANGED <<pages, now, notBatch>>

InitBatch == sb = IdleBatch

ScrapeStep(c) ==
  \/ ScrapeCacheRead(c)
  \/ ScrapeCacheDelete(c)
  \/ ScrapeCheerio(c)
  \/ ScrapePuppeteer(c)
  \/ ScrapePutCheck(c)
  \/ ScrapePutWrite(c)

NextScrapeBatch ==
  \/ \E d \in {1, CACHE_DURATION_DAYS * SecondsPerDay} : ScrapeTick(d)
  \/ \E urls \in UrlLists, u \in BOOLEAN : SmStart(urls, u)
  \/ SmCall
  \/ SmCollect
  \/ SmDelay
  \/ \E u \in ProjectUrls : GfpStart(u)
  \/ GfpJoin
  \/ \E c \in ScrapeCalls : ScrapeStep(c)

(***************************************************************************)
(* Prompt templates: PromptTemplateService over the prompt_template table  *)
(***************************************************************************)
TemplateIds == {"t1", "t2"}
UnknownTemplateId == "tx"   \* an id no template is ever created with
TplCalls == {"k1", "k2"}
SystemUser == "system"
Platforms == {"facebook", "google"}
PromptTypes == {"ad_copy"}

\* a PromptTemplate row as the spec's data model gives it (the table's
\* declaration is not part of the source): the id is its only key.  Of the
\* template column the platform is kept.
TemplateRow(userId, promptType, isDefault, platform) ==
  [ userId |-> userId, promptType |-> promptType, isDefault |-> isDefault,
    platform |-> platform ]

NoTemplate == [userId |-> "none"]       \* the id was never given out
Deleted == [userId |-> "deleted"]       \* the row of the id was deleted

IsRow(i) == i \in TemplateIds /\ templates[i] \notin {NoTemplate, Deleted}

\* result: the id of the row the call returns; error: the message it
\* throws; created: the call inserted a row
IdleTpl ==
  [ pc |-> "idle", op |-> "none", userId |-> "none", id |-> "none",
    promptType |-> "none", platform |-> "none",
    result |-> "none", error |-> "none", created |-> FALSE ]

notTpl == <<otherThanScrape, now, scrapeVars, batchVars, fb, bp, lateVars>>

TplReturned(k) == tc[k].pc \in {"idle", "done"}

\* what is left of a call that has returned or thrown
Outcome(q, result, error, created) ==
  [IdleTpl EXCEPT !.pc = "done", !.op = q.op, !.result = result,
                  !.error = error, !.created = created]

\* nanoid(): an id that was never given out
FreshIds == { i \in TemplateIds : templates[i] = NoTemplate }
nanoid == CHOOSE i \in FreshIds : TRUE

\* getDefaultTemplate lines 19-27: the rows the query matches
DefaultRows(promptType) ==
  { i \in TemplateIds : /\ IsRow(i)
                        /\ templates[i].promptType = promptType
                        /\ templates[i].isDefault }

\* lines 30-32: the rows among them that templates.find() may come upon
PlatformRows(promptType, platform) ==
  { i \in DefaultRows(promptType) : templates[i].platform = platform }

\* getDefaultTemplate is called
TplGetStart(k, platform, promptType) ==
  /\ TplReturned(k)
  /\ tc' = [tc EXCEPT ![k] =
       [IdleTpl EXCEPT !.op = "getDefaultTemplate", !.platform = platform,
                       !.promptType = promptType, !.pc = "g_select"]]
  /\ UNCHANGED <<templates, notTpl>>

\* mutant of TplGetSelect: a default of another platform is returned
TplGetSelect_AnyPlatform(k) ==
  /\ tc[k].pc = "g_select"
  /\ IF DefaultRows(tc[k].promptType) = {}
     THEN tc' = [tc EXCEPT ![k].pc = "g_insert"]
     ELSE \E i \in DefaultRows(tc[k].promptType) :
            tc' = [tc EXCEPT ![k] = Outcome(@, i, "none", FALSE)]
  /\ UNCHANGED <<templates, notTpl>>

\* getDefaultTemplate lines 19-38: the select answers; a row of the platform
\* is returned, or createDefaultTemplate goes on to the insert
TplGetSelect(k) ==
  /\ tc[k].pc = "g_select"
  /\ IF PlatformRows(tc[k].promptType, tc[k].platform) = {}
     THEN tc' = [tc EXCEPT ![k].pc = "g_insert"]
     ELSE \E i \in PlatformRows(tc[k].promptType, tc[k].platform) :
            tc' = [tc EXCEPT ![k] = Outcome(@, i, "none", FALSE)]
  /\ UNCHANGED <<templates, notTpl>>

\* createDefaultTemplate lines 370-378 and createTemplate lines 94-122: the
\* default row of the system user is inserted and returned
TplGetInsert(k) ==
  /\ tc[k].pc = "g_insert"
  /\ FreshIds # {}
  /\ templates' = [templates EXCEPT ![nanoid] =
       TemplateRow(SystemUser, tc[k].promptType, TRUE, tc[k].platform)]
  /\ tc' = [tc EXCEPT ![k] = Outcome(@, nanoid, "none", TRUE)]
  /\ UNCHANGED notTpl

\* createTemplate lines 86-124, with the isDefault the router passes on
TplCreate(k, userId, platform, promptType, isDefault) ==
  /\ TplReturned(k)
  /\ FreshIds # {}
  /\ templates' = [templates EXCEPT ![nanoid] =
       TemplateRow(userId, promptType, isDefault, platform)]
  /\ tc' = [tc EXCEPT ![k] =
       Outcome([op |-> "createTemplate"], nanoid, "none", TRUE)]
  /\ UNCHANGED notTpl

\* updateTemplate is called
TplUpdateStart(k, id, userId, platform) ==
  /\ TplReturned(k)
  /\ tc' = [tc EXCEPT ![k] =
       [IdleTpl EXCEPT !.op = "updateTemplate", !.id = id,
                       !.userId = userId, !.platform = platform,
                       !.pc = "u_check"]]
  /\ UNCHANGED <<templates, notTpl>>

RowOf(id) == IF id \in TemplateIds THEN templates[id] ELSE NoTemplate

\* the checks that updateTemplate and deleteTemplate make on the row read
Checked(q, write) ==
  IF RowOf(q.id) \in {NoTemplate, Deleted}
  THEN Outcome(q, "none", "Template not found", FALSE)
  ELSE IF RowOf(q.id).userId # q.userId
  THEN Outcome(q, "none", "no permission", FALSE)
  ELSE [q EXCEPT !.pc = write]

\* mutant of TplUpdateCheck: the owner is not compared
TplUpdateCheck_NoOwner(k) ==
  /\ tc[k].pc = "u_check"
  /\ tc' = [tc EXCEPT ![k] =
       IF RowOf(tc[k].id) \in {NoTemplate, Deleted}
       THEN Outcome(@, "none", "Template not found", FALSE)
       ELSE [@ EXCEPT !.pc = "u_write"]]
  /\ UNCHANGED <<templates, notTpl>>

\* updateTemplate lines 141-153
TplUpdateCheck(k) ==
  /\ tc[k].pc = "u_check"
  /\ tc' = [tc EXCEPT ![k] = Checked(@, "u_write")]
  /\ UNCHANGED <<templates, notTpl>>

\* updateTemplate lines 155-182: the template is set where the id matches,
\* which is no row when it was deleted meanwhile
TplUpdateWrite(k) ==
  /\ tc[k].pc = "u_write"
  /\ templates' =
       IF IsRow(tc[k].id)
       THEN [templates EXCEPT ![tc[k].id].platform = tc[k].platform]
       ELSE templates
  /\ tc' = [tc EXCEPT ![k] = Outcome(@, tc[k].id, "none", FALSE)]
  /\ UNCHANGED notTpl

\* deleteTemplate is called
TplDeleteStart(k, id, userId) ==
  /\ TplReturned(k)
  /\ tc' = [tc EXCEPT ![k] =
       [IdleTpl EXCEPT !.op = "deleteTemplate", !.id = id,
                       !.userId = userId, !.pc = "d_check"]]
  /\ UNCHANGED <<templates, notTpl>>

\* mutant of TplDeleteCheck: the owner may delete a default template
TplDeleteCheck_NoDefaultGuard(k) ==
  /\ tc[k].pc = "d_check"
  /\ tc' = [tc EXCEPT ![k] = Checked(@, "d_write")]
  /\ UNCHANGED <<templates, notTpl>>

\* deleteTemplate lines 189-206
TplDeleteCheck(k) ==
  /\ tc[k].pc = "d_check"
  /\ LET q == Checked(tc[k], "d_write")
     IN tc' = [tc EXCEPT ![k] =
          IF q.pc = "d_write" /\ RowOf(q.id).isDefault
          THEN Outcome(q, "none", "Cannot delete default templates", FALSE)
          ELSE q]
  /\ UNCHANGED <<templates, notTpl>>

\* deleteTemplate line 209
TplDeleteWrite(k) ==
  /\ tc[k].pc = "d_write"
  /\ templates' = IF IsRow(tc[k].id)
                  THEN [templates EXCEPT ![tc[k].id] = Deleted]
                  ELSE templates
  /\ tc' = [tc EXCEPT ![k] = Outcome(@, "none", "none", FALSE)]
  /\ UNCHANGED notTpl

InitTpl ==
  /\ templates = [i \in TemplateIds |-> NoTemplate]
  /\ tc = [k \in TplCalls |-> IdleTpl]

TplStep(k) ==
  \/ TplGetSelect(k)
  \/ TplGetInsert(k)
  \/ TplUpdateCheck(k)
  \/ TplUpdateWrite(k)
  \/ TplDeleteCheck(k)
  \/ TplDeleteWrite(k)

\* a call by a signed-in user, or getDefaultTemplate called by anyone
TplCall(k) ==
  \/ \E p \in Platforms, t \in PromptTypes : TplGetStart(k, p, t)
  \/ \E u \in Users, p \in Platforms, t \in PromptTypes, d \in BOOLEAN :
       TplCreate(k, u, p, t, d)
  \/ \E i \in TemplateIds \cup {UnknownTemplateId}, u \in Users,
        p \in Platforms : TplUpdateStart(k, i, u, p)
  \/ \E i \in TemplateIds \cup {UnknownTemplateId}, u \in Users :
       TplDeleteStart(k, i, u)

NextTpl == \E k \in TplCalls : TplCall(k) \/ TplStep(k)

\* one call at a time
NextTplSeq ==
  \E k \in TplCalls :
    \/ (\A j \in TplCalls : TplReturned(j)) /\ TplCall(k)
    \/ TplStep(k)

(***************************************************************************)
(* FacebookAdCopyGenerator.generateFacebookAdCopy                          *)
(***************************************************************************)
MaxFbVariations == 4
NoIndex == 0                \* a placeholder text that holds no number
variationTypes == <<"benefits", "pain_agitation", "storytelling">>

\* a generated text records which of its labelled fields a match finds
FbTexts == [primaryText : BOOLEAN, headline : BOOLEAN]

\* parseFacebookContent lines 854-873: the matched text, or a fixed sentence
parseFacebookContent(generatedText) ==
  [ primaryText |->
      IF generatedText.primaryText
      THEN [src |-> "model", label |-> "PRIMARY_TEXT", n |-> NoIndex]
      ELSE [src |-> "placeholder", label |-> "Compelling primary text",
            n |-> NoIndex],
    headline |->
      IF generatedText.headline
      THEN [src |-> "model", label |-> "HEADLINE", n |-> NoIndex]
      ELSE [src |-> "placeholder", label |-> "Free Offer", n |-> NoIndex] ]

\* lines 832-843: the content pushed when the model call throws
FbFallback(i) ==
  [ primaryText |-> [src |-> "fallback", label |-> "Compelling primary text",
                     n |-> i + 1],
    headline |-> [src |-> "fallback", label |-> "Free Offer", n |-> i + 1] ]

\* lines 818-825 and 832-843: the variation pushed in round i (from 0)
FbVariation(i, content, threw) ==
  [ variationNumber |-> i + 1,
    variationType |-> variationTypes[(i % Len(variationTypes)) + 1],
    content |-> content, threw |-> threw ]

\* calls: the model calls made
IdleFb == [pc |-> "idle", variationCount |-> 0, variations |-> <<>>,
           calls |-> 0]

notFb == <<otherThanScrape, now, scrapeVars, batchVars, tplVars, bp, lateVars>>

\* generateFacebookAdCopy lines 768-782: entry, up to the template lookup
FbStart(n) ==
  /\ fb.pc \in {"idle", "done"}
  /\ fb' = [IdleFb EXCEPT !.variationCount = n, !.pc = "template"]
  /\ UNCHANGED notFb

\* lines 780-797: the default template is there and the prompt is built
FbTemplate ==
  /\ fb.pc = "template"
  /\ fb' = [fb EXCEPT !.pc = IF fb.variationCount = 0 THEN "done"
                              ELSE "model"]
  /\ UNCHANGED notFb

\* what a round leaves: the next round, or the return of lines 846-849
FbRound(q) ==
  [q EXCEPT !.pc = IF Len(q.variations) = q.variationCount THEN "done"
                   ELSE "model"]

\* mutant of FbModelCall: a call that throws ends the loop
FbModelCall_SkipsFailure ==
  /\ fb.pc = "model"
  /\ \/ \E text \in FbTexts :
          fb' = FbRound([fb EXCEPT !.calls = @ + 1,
                  !.variations = Append(@,
                     FbVariation(Len(fb.variations),
                                 parseFacebookContent(text), FALSE))])
     \/ fb' = [fb EXCEPT !.calls = @ + 1, !.pc = "done"]
  /\ UNCHANGED notFb

\* lines 799-844: one round of the loop, the model answering with a text
\* or throwing
FbModelCall ==
  /\ fb.pc = "model"
  /\ \/ \E text \in FbTexts :
          fb' = FbRound([fb EXCEPT !.calls = @ + 1,
                  !.variations = Append(@,
                     FbVariation(Len(fb.variations),
                                 parseFacebookContent(text), FALSE))])
     \/ fb' = FbRound([fb EXCEPT !.calls = @ + 1,
                  !.variations = Append(@,
                     FbVariation(Len(fb.variations),
                                 FbFallback(Len(fb.variations)), TRUE))])
  /\ UNCHANGED notFb

InitFb == fb = IdleFb

NextFb ==
  \/ \E n \in 0..MaxFbVariations : FbStart(n)
  \/ FbTemplate
  \/ FbModelCall

(***************************************************************************)
(* PromptTemplateService.buildPromptFromTemplate                           *)
(*                                                                         *)
(* A section is known by its place in the stored list (id); its content    *)
(* is a plain text or holds one placeholder.  The prompt is the sequence   *)
(* of the pieces the code concatenates; the final trim() is left out.      *)
(***************************************************************************)
MaxSections == 3
Orders == {1, 2}
Contents == {"text", "{projectName}", "{assetInterpretations}"}
SectionLists ==
  UNION { { [i \in 1..n |-> [id |-> i, order |-> f[i].order,
                              content |-> f[i].content]] :
            f \in [1..n -> [order : Orders, content : Contents]] } :
          n \in 0..MaxSections }
Contexts == [projectName : {"P"}, assetInterpretations : {<<>>, <<"a">>}]

\* Array.prototype.sort with (a, b) => a.order - b.order, which is stable:
\* x goes after the sections whose order is not greater
RECURSIVE InsertByOrder(_, _)
InsertByOrder(x, sorted) ==
  IF sorted = <<>> THEN <<x>>
  ELSE IF x.order < Head(sorted).order THEN <<x>> \o sorted
  ELSE <<Head(sorted)>> \o InsertByOrder(x, Tail(sorted))

RECURSIVE SortByOrder(_)
SortByOrder(sections) ==
  IF sections = <<>> THEN <<>>
  ELSE InsertByOrder(sections[Len(sections)],
                     SortByOrder(SubSeq(sections, 1, Len(sections) - 1)))

\* lines 233-277: the placeholders of a section replaced by the context
SectionContent(section, context) ==
  [ id |-> section.id,
    text |-> CASE section.content = "text" -> "text"
               [] section.content = "{projectName}" -> context.projectName
               [] section.content = "{assetInterpretations}" ->
                    IF Len(context.assetInterpretations) > 0
                    THEN "Asset 1: a" ELSE "No assets provided." ]

\* mutant of buildPromptFromTemplate: the sections are not sorted
buildPromptFromTemplate_Unsorted(sections, context) ==
  <<[id |-> 0, text |-> "systemPrompt"]>> \o
  [ i \in 1..Len(sections) |-> SectionContent(sections[i], context) ]

\* lines 215-283
buildPromptFromTemplate(sections, context) ==
  LET sortedSections == SortByOrder(sections)
  IN <<[id |-> 0, text |-> "systemPrompt"]>> \o
     [ i \in 1..Len(sortedSections) |->
         SectionContent(sortedSections[i], context) ]

\* sections: template.template.sections as the calls leave it; given: the
\* list the template was built with; out: the prompts returned
IdleBp == [pc |-> "idle", sections |-> <<>>, given |-> <<>>,
           context |-> [projectName |-> "P", assetInterpretations |-> <<>>],
           out |-> <<>>]

notBp == <<otherThanScrape, now, scrapeVars, batchVars, tplVars, fb, lateVars>>

\* line 228: [...sections] is a copy, so sort() leaves the list it was
\* given in the stored order
AfterBuild(sections) == sections

\* a template and a context are at hand
BpStart(sections, context) ==
  /\ bp.pc = "idle"
  /\ bp' = [IdleBp EXCEPT !.sections = sections, !.given = sections,
                          !.context = context, !.pc = "call"]
  /\ UNCHANGED notBp

\* buildPromptFromTemplate is called, a first and a second time
BpBuild ==
  /\ bp.pc = "call"
  /\ bp' = [bp EXCEPT
       !.sections = AfterBuild(@),
       !.out = Append(@, buildPromptFromTemplate(bp.sections, bp.context)),
       !.pc = IF Len(bp.out) = 1 THEN "done" ELSE "call"]
  /\ UNCHANGED notBp

InitBp == bp = IdleBp

NextBp ==
  \/ \E sections \in SectionLists, context \in Contexts :
       BpStart(sections, context)
  \/ BpBuild

(***************************************************************************)
(* WebScraperService.cleanupCache over the landing page cache              *)
(*                                                                         *)
(* One scrapeContent caller fills the cache; cleanupCache is called at     *)
(* most MaxGcCalls times.                                                  *)
(***************************************************************************)
GcCaller == "w1"
MaxAges == {0, CACHE_DURATION_DAYS}

\* calls: the cleanupCache calls made; cutoff, rowCount: the cutoff date and
\* the answer of the last one; threw: its delete statement threw
IdleGc == [calls |-> 0, cutoff |-> 0, rowCount |-> 0, threw |-> FALSE]

notGc ==
  <<otherThanScrape, now, sc, batchVars, tplVars, fb, bp, rd, pa, cleanVars>>

\* cutoffDate.setDate(cutoffDate.getDate() - maxAgeInDays), in seconds
cutoffDate(maxAgeInDays) == now - maxAgeInDays * SecondsPerDay

\* the rows the delete statement matches: eq(createdAt, cutoffDate)
GcMatched(cutoff) == { r \in pages : r.createdAt = cutoff }

\* cleanupCache lines 517-530: one delete statement; when it throws the catch
\* block answers 0
cleanupCache(maxAgeInDays, throws) ==
  /\ cc.calls < MaxGcCalls
  /\ LET cutoff == cutoffDate(maxAgeInDays)
         matched == IF throws THEN {} ELSE GcMatched(cutoff)
     IN /\ pages' = pages \ matched
        /\ cc' = [calls |-> cc.calls + 1, cutoff |-> cutoff,
                  rowCount |-> Cardinality(matched), threw |-> throws]
  /\ UNCHANGED notGc

InitGc == cc = IdleGc

NextScrapeGc ==
  \/ \E d \in {1, CACHE_DURATION_DAYS * SecondsPerDay} : ScrapeTick(d)
  \/ \E url \in Urls \cup {InvalidUrl}, u \in BOOLEAN :
       ScrapeStart(GcCaller, url, u)
  \/ ScrapeStep(GcCaller)
  \/ \E m \in MaxAges, t \in BOOLEAN : cleanupCache(m, t)

(***************************************************************************)
(* buildPromptFromTemplate: the placeholders of one section                *)
(*                                                                         *)
(* A string is the sequence of its tokens: a placeholder or a piece of     *)
(* text without one.  The index in "Asset 1: " and "Page 1: " is left out. *)
(***************************************************************************)
Placeholders ==
  {"{projectName}", "{variationCount}", "{variationType}",
   "{assetInterpretations}", "{landingPageContent}"}
SectionTexts ==
  UNION { [1..n -> Placeholders \cup {"text"}] : n \in 1..MaxTokens }
RenderContexts ==
  [ projectName : {<<"P">>, <<"{variationType}">>, <<"{landingPageContent}">>},
    variationCount : {<<"3">>},
    variationType : {<<"benefits">>},
    assetInterpretations :
      {<<>>, << <<"a">> >>, << <<"{landingPageContent}">> >>,
       << <<"{projectName}">> >>},
    landingPageContent : {<<>>, << <<"l">> >>, << <<"{projectName}">> >>} ]

\* String.prototype.replace with a global pattern: every occurrence of the
\* placeholder in content gives way to value
RECURSIVE replaceAll(_, _, _)
replaceAll(content, placeholder, value) ==
  IF content = <<>> THEN <<>>
  ELSE (IF Head(content) = placeholder THEN value ELSE <<Head(content)>>)
       \o replaceAll(Tail(content), placeholder, value)

\* content.includes(placeholder)
includes(content, placeholder) ==
  \E i \in 1..Len(content) : content[i] = placeholder

\* list.map((x, index) => `${label} ${index + 1}: ${x}`).join("\n")
RECURSIVE JoinLabelled(_, _)
JoinLabelled(label, list) ==
  IF list = <<>> THEN <<>>
  ELSE <<label>> \o Head(list) \o
       (IF Tail(list) = <<>> THEN <<>>
        ELSE <<"\n">> \o JoinLabelled(label, Tail(list)))

\* lines 239-242: the three replacements, chained
replaceNames(content, context) ==
  replaceAll(
    replaceAll(
      replaceAll(content, "{projectName}", context.projectName),
      "{variationCount}", context.variationCount),
    "{variationType}", context.variationType)

\* lines 245-260
replaceAssets(content, context) ==
  IF includes(content, "{assetInterpretations}")
  THEN replaceAll(content, "{assetInterpretations}",
         IF Len(context.assetInterpretations) > 0
         THEN JoinLabelled("Asset: ", context.assetInterpretations)
         ELSE <<"No assets provided.">>)
  ELSE content

\* lines 263-277
replacePages(content, context) ==
  IF includes(content, "{landingPageContent}")
  THEN replaceAll(content, "{landingPageContent}",
         IF Len(context.landingPageContent) > 0
         THEN JoinLabelled("Page: ", context.landingPageContent)
         ELSE <<"No landing page content provided.">>)
  ELSE content

\* lines 235-277: sectionContent as it is appended to the prompt
renderSection(content, context) ==
  replacePages(replaceAssets(replaceNames(content, context), context),
               context)

IdleRd == [pc |-> "idle", content |-> <<>>, out |-> <<>>,
           context |-> CHOOSE x \in RenderContexts : TRUE]

notRd ==
  <<otherThanScrape, now, scrapeVars, batchVars, tplVars, fb, bp, cc, pa,
    cleanVars>>

\* a section and a context are at hand
RdStart(content, context) ==
  /\ rd.pc = "idle"
  /\ rd' = [IdleRd EXCEPT !.pc = "call", !.content = content,
                          !.context = context]
  /\ UNCHANGED notRd

\* the loop body of buildPromptFromTemplate runs for the section
RdRender ==
  /\ rd.pc = "call"
  /\ rd' = [rd EXCEPT !.pc = "done",
                      !.out = renderSection(rd.content, rd.context)]
  /\ UNCHANGED notRd

InitRd == rd = IdleRd

NextRd ==
  \/ \E content \in SectionTexts, context \in RenderContexts :
       RdStart(content, context)
  \/ RdRender

(***************************************************************************)
(* The asset procedures of the router, for one asset: processProjectAssets *)
(* and processAssets followed by interpretAssets                           *)
(***************************************************************************)
PaProcedures == {"processProjectAssets", "processAssets"}

\* the caller of interpretAsset on behalf of the procedure
PaProc == "a1"

\* status: what the procedure reports for the asset; freshAtCheck: the entry
\* was within the TTL when the procedure decided to skip the asset
IdlePa ==
  [ pc |-> "idle", kind |-> "none",
    asset |-> [dropboxFileId |-> "f1", fileType |-> "image"],
    status |-> "none", freshAtCheck |-> FALSE ]

InitPa == pa = IdlePa

(***************************************************************************)
(* CleanupMonitor: performCleanup over the temp directory and the bucket,  *)
(* next to the ingestion pipeline that writes to both                      *)
(*                                                                         *)
(* File and object names are nanoids: a name is given out once.            *)
(***************************************************************************)
CmRuns == {"m1", "m2"}
TempFiles == {"x"}
Objects == {"o", "q"}
OneHour == 3600

\* state: none (not written yet), present, gone; time: mtime of a file,
\* timeCreated of an object; meta: the object has timeCreated metadata
NoItem == [state |-> "none", time |-> 0, meta |-> TRUE]

IdleRun ==
  [ pc |-> "idle", scanNow |-> 0, list |-> {},
    tempFound |-> {}, tempCleaned |-> {}, tempFailed |-> {},
    gcsFound |-> {}, gcsCleaned |-> {}, gcsFailed |-> {} ]

\* localPath: the files processAssets recorded in Asset.localPath;
\* transcribing: the objects of the transcriptions in progress; missing: the
\* files and objects the pipeline went to read and did not find
IdlePl == [localPath |-> {}, transcribing |-> {}, missing |-> {}]

notClean ==
  <<otherThanScrape, scrapeVars, batchVars, tplVars, fb, bp, cc, rd, pa>>

Present(dir) == { f \in DOMAIN dir : dir[f].state = "present" }

Remove(dir, names) ==
  [ f \in DOMAIN dir |->
      IF f \in names /\ dir[f].state = "present"
      THEN [dir[f] EXCEPT !.state = "gone"] ELSE dir[f] ]

\* the clock advances by a second or by an hour
CmTick(d) ==
  /\ now + d <= OneHour + MaxSlack
  /\ (now + d) % OneHour <= MaxSlack
  /\ now' = now + d
  /\ UNCHANGED <<cleanVars, notClean>>

\* mutant of IsOld: ageInHours >= 1
IsOld_AtLeast(t, at) == at - t >= OneHour

\* ageInHours > 1, with ageInHours = (now - t) / one hour
IsOld(t, at) == at - t > OneHour

\* scanTempFiles lines 70-98
scanTempFiles ==
  { f \in Present(tmpdir) : IsOld(tmpdir[f].time, now) }

\* performCleanup lines 200-206: scanTempFiles runs up to its return, then
\* scanGcsFiles waits for getFiles
CmStart(m) ==
  /\ cm[m].pc = "idle"
  /\ cm' = [cm EXCEPT ![m].pc = "list", ![m].tempFound = scanTempFiles]
  /\ UNCHANGED <<now, tmpdir, gcs, pl, notClean>>

\* scanGcsFiles lines 105-109: getFiles has answered, now = Date.now()
CmListGcs(m) ==
  /\ cm[m].pc = "list"
  /\ cm' = [cm EXCEPT ![m].list = Present(gcs), ![m].scanNow = now,
                      ![m].pc = "meta"]
  /\ UNCHANGED <<now, tmpdir, gcs, pl, notClean>>

\* scanGcsFiles lines 111-134: getMetadata of the next listed object has
\* answered; an object without timeCreated is skipped; getMetadata of an
\* object that is gone throws and the catch block returns no object at all.
\* After the last one cleanupTempFiles runs (lines 140-165, no await): a
\* flagged file that no longer exists is passed over, an unlink that throws
\* puts the file in failed
CmMeta(m, failing) ==
  /\ cm[m].pc = "meta"
  /\ failing \subseteq cm[m].tempFound \cap Present(tmpdir)
  /\ LET o == CHOOSE o \in cm[m].list : TRUE
         rest == IF cm[m].list = {} THEN {} ELSE cm[m].list \ {o}
         threw == cm[m].list # {} /\ gcs[o].state # "present"
         found == IF cm[m].list = {} THEN cm[m].gcsFound
                  ELSE IF threw THEN {}
                  ELSE IF gcs[o].meta /\ IsOld(gcs[o].time, cm[m].scanNow)
                  THEN cm[m].gcsFound \cup {o}
                  ELSE cm[m].gcsFound
         last == rest = {} \/ threw
         cleaned == (cm[m].tempFound \cap Present(tmpdir)) \ failing
     IN IF last
        THEN /\ tmpdir' = Remove(tmpdir, cleaned)
             /\ cm' = [cm EXCEPT ![m].list = found, ![m].gcsFound = found,
                                 ![m].tempCleaned = cleaned,
                                 ![m].tempFailed = failing,
                                 ![m].pc = IF found = {} THEN "done"
                                           ELSE "delete"]
        ELSE /\ failing = {}
             /\ cm' = [cm EXCEPT ![m].list = rest, ![m].gcsFound = found]
             /\ UNCHANGED tmpdir
  /\ UNCHANGED <<now, gcs, pl, notClean>>

\* cleanupGcsFiles lines 170-195: delete() of the next flagged object has
\* answered: it throws for an object that is gone, and may throw for one that
\* is there; after the last one performCleanup returns its report
CmCleanGcs(m, ok) ==
  /\ cm[m].pc = "delete"
  /\ LET o == CHOOSE o \in cm[m].list : TRUE
         deleted == ok /\ gcs[o].state = "present"
     IN /\ gcs' = IF deleted THEN Remove(gcs, {o}) ELSE gcs
        /\ cm' = [cm EXCEPT
             ![m].list = @ \ {o},
             ![m].gcsCleaned = IF deleted THEN @ \cup {o} ELSE @,
             ![m].gcsFailed = IF deleted THEN @ ELSE @ \cup {o},
             ![m].pc = IF cm[m].list = {o} THEN "done" ELSE "delete"]
  /\ UNCHANGED <<now, tmpdir, pl, notClean>>

\* the report of a run that is done (lines 218-236)
Report(m) ==
  [ tempFiles |-> [found |-> cm[m].tempFound, cleaned |-> cm[m].tempCleaned,
                   failed |-> cm[m].tempFailed],
    gcsFiles |-> [found |-> cm[m].gcsFound, cleaned |-> cm[m].gcsCleaned,
                  failed |-> cm[m].gcsFailed],
    cleanupSuccess |-> cm[m].tempFailed = {} /\ cm[m].gcsFailed = {} ]

\* downloadFile writes a temp file under a new name; processAssets records
\* it in Asset.localPath, processProjectAssets does not
PlDownload(f, keep) ==
  /\ tmpdir[f].state = "none"
  /\ tmpdir' = [tmpdir EXCEPT ![f] = [NoItem EXCEPT !.state = "present",
                                                    !.time = now]]
  /\ pl' = [pl EXCEPT !.localPath = IF keep THEN @ \cup {f} ELSE @]
  /\ UNCHANGED <<now, gcs, cm, notClean>>

\* processProjectAssets unlinks the file it downloaded
PlUnlink(f) ==
  /\ tmpdir[f].state = "present"
  /\ f \notin pl.localPath
  /\ tmpdir' = Remove(tmpdir, {f})
  /\ UNCHANGED <<now, gcs, cm, pl, notClean>>

\* interpretAssets reads a file recorded in Asset.localPath
PlRead(f) ==
  /\ f \in pl.localPath
  /\ pl' = [pl EXCEPT !.missing =
             IF tmpdir[f].state = "present" THEN @ ELSE @ \cup {f}]
  /\ UNCHANGED <<now, tmpdir, gcs, cm, notClean>>

\* transcribeAudio uploads the audio under a new name
PlUpload(o, meta) ==
  /\ gcs[o].state = "none"
  /\ gcs' = [gcs EXCEPT ![o] = [state |-> "present", time |-> now,
                                meta |-> meta]]
  /\ pl' = [pl EXCEPT !.transcribing = @ \cup {o}]
  /\ UNCHANGED <<now, tmpdir, cm, notClean>>

\* the recognition operation reads the object of its request
PlRecognize(o) ==
  /\ o \in pl.transcribing
  /\ pl' = [pl EXCEPT !.missing =
             IF gcs[o].state = "present" THEN @ ELSE @ \cup {o}]
  /\ UNCHANGED <<now, tmpdir, gcs, cm, notClean>>

\* transcribeAudio's finally block deletes the object
PlDeleteObject(o) ==
  /\ o \in pl.transcribing
  /\ gcs' = Remove(gcs, {o})
  /\ pl' = [pl EXCEPT !.transcribing = @ \ {o}]
  /\ UNCHANGED <<now, tmpdir, cm, notClean>>

InitClean ==
  /\ tmpdir = [f \in TempFiles |-> NoItem]
  /\ gcs = [o \in Objects |-> NoItem]
  /\ cm = [m \in CmRuns |-> IdleRun]
  /\ pl = IdlePl

PipelineStep ==
  \/ \E f \in TempFiles, keep \in BOOLEAN : PlDownload(f, keep)
  \/ \E f \in TempFiles : PlUnlink(f)
  \/ \E f \in TempFiles : PlRead(f)
  \/ \E o \in Objects, meta \in BOOLEAN : PlUpload(o, meta)
  \/ \E o \in Objects : PlRecognize(o)
  \/ \E o \in Objects : PlDeleteObject(o)

CmStep(m) ==
  \/ CmStart(m)
  \/ CmListGcs(m)
  \/ \E failing \in SUBSET TempFiles : CmMeta(m, failing)
  \/ \E ok \in BOOLEAN : CmCleanGcs(m, ok)

\* one performCleanup run next to the pipeline
NextClean ==
  \/ \E d \in {1, OneHour} : CmTick(d)
  \/ PipelineStep
  \/ CmStep("m1")

\* two performCleanup runs over what the pipeline has written
NextCleanTwo ==
  \/ \E d \in {1, OneHour} : CmTick(d)
  \/ \E f \in TempFiles : PlDownload(f, FALSE)
  \/ \E o \in Objects, meta \in BOOLEAN : PlUpload(o, meta)
  \/ \E m \in CmRuns : CmStep(m)

InitGen ==
  /\ apiKey \in BOOLEAN
  /\ projects = [p \in ProjectIds |-> NoProject]
  /\ generations = {}
  /\ gen = [c \in Calls |-> IdleCall]
  /\ now = 0
  /\ cache = {}
  /\ ip = [p \in Procs |-> IdleProc]
  /\ InitSpeech
  /\ InitTemp
  /\ InitDbx
  /\ InitScrape
  /\ InitBatch
  /\ InitTpl
  /\ InitFb
  /\ InitBp
  /\ InitGc
  /\ InitRd
  /\ InitPa
  /\ InitClean

InitCache == InitGen /\ apiKey

\* no call is in progress
NoneRunning == \A q \in Procs : ~IpRunning(q)

IpStep(p) ==
  \/ IpLookup(p)
  \/ IpFreshCheck(p)
  \/ IpVision(p)
  \/ IpExtractAudio(p)
  \/ IpTranscribe(p)
  \/ IpPutCheck(p)
  \/ IpPutWrite(p)

\* calls of interpretAsset, interleaving
NextCache ==
  \/ \E d \in {1, DefaultMaxAgeInDays * SecondsPerDay} : Tick(d)
  \/ \E p \in Procs, a \in Assets : IpStartInterpret(p, <<a>>)
  \/ \E p \in Procs : IpStep(p)

\* calls of interpretAsset and cacheInterpretation, one at a time
NextCacheSeq ==
  \/ \E d \in {1, DefaultMaxAgeInDays * SecondsPerDay} : Tick(d)
  \/ \E p \in Procs, a \in Assets : NoneRunning /\ IpStartInterpret(p, <<a>>)
  \/ \E p \in Procs, args \in PutArgs : NoneRunning /\ IpStartPut(p, args)
  \/ \E p \in Procs : IpStep(p)

\* one call of interpretAssets with a list of assets
NextBatch ==
  \/ \E d \in {1, DefaultMaxAgeInDays * SecondsPerDay} : Tick(d)
  \/ \E list \in AssetLists : IpStartInterpret("a1", list)
  \/ IpStep("a1")

SpecCache == InitCache /\ [][NextCache]_vars
SpecCacheSeq == InitCache /\ [][NextCacheSeq]_vars
SpecBatch == InitCache /\ [][NextBatch]_vars

NextGen ==
  \/ \E u \in Users, n \in VariationCounts : createProject(u, n)
  \/ \E c \in Calls, u \in Users, p \in ProjectIds \cup {UnknownProjectId} :
       GenStart(c, u, p)
  \/ \E c \in Calls : GenLoadProject(c)
  \/ \E c \in Calls : GenGatherContext(c)
  \/ \E c \in Calls : GenModelCall(c)
  \/ \E c \in Calls : GenSaveOne(c)
  \/ \E c \in Calls : GenFinalStatus(c)
  \/ \E c \in Calls : GenCatch(c)

SpecGen == InitGen /\ [][NextGen]_vars
SpecSpeech == InitCache /\ [][NextSpeech]_vars
SpecTemp == InitCache /\ [][NextTemp]_vars
SpecDbx == InitCache /\ [][NextDbx]_vars
SpecDbxSeq == InitCache /\ [][NextDbxSeq]_vars
SpecScrape == InitCache /\ [][NextScrape]_vars
SpecScrapeBatch == InitCache /\ [][NextScrapeBatch]_vars
SpecTpl == InitCache /\ [][NextTpl]_vars
SpecTplSeq == InitCache /\ [][NextTplSeq]_vars
SpecFb == InitCache /\ [][NextFb]_vars
SpecBp == InitCache /\ [][NextBp]_vars

(***************************************************************************)
(* Properties of the generation procedure (SpecGen)                        *)
(***************************************************************************)
\* the GenerationRecords inserted by call c
RecordsOf(c) == { g \in generations : g.run = c }

StatusOf(c) == projects[gen[c].projectId].status

\* C1: whenever generateAdCopy terminates for an existing project of the
\* caller, the step that terminates it leaves the project completed if the
\* call returned and failed if it threw, never processing.
C1_TerminalStatus ==
  [][ \A c \in Calls :
        ( /\ ~GenTerminated(c)
          /\ GenTerminated(c)'
          /\ OwnedBy(gen[c].projectId, gen[c].userId) )
        => /\ gen'[c].pc = "returned" => StatusOf(c)' = "completed"
           /\ gen'[c].pc = "thrown" => StatusOf(c)' = "failed" ]_vars

\* C1 witness: a call whose model call failed has thrown and its project is
\* failed
C1_Witness ==
  \E c \in Calls :
    /\ gen[c].pc = "thrown"
    /\ apiKey
    /\ gen[c].variationCount > 0
    /\ ~gen[c].modelOk
    /\ OwnedBy(gen[c].projectId, gen[c].userId)
    /\ StatusOf(c) = "failed"

\* the edges of the linear status machine
StatusEdges ==
  { <<"draft", "processing">>, <<"processing", "completed">>,
    <<"processing", "failed">> }

\* C2 (as claimed): a project's status only moves draft -> processing,
\* processing -> completed and processing -> failed; nothing leaves completed
\* or failed.
C2_LinearStatus ==
  [][ \A p \in ProjectIds :
        (projects[p] # NoProject /\ projects'[p].status # projects[p].status)
        => <<projects[p].status, projects'[p].status>> \in StatusEdges ]_vars

\* C3 (as claimed): a run that ended in failure leaves none of the
\* GenerationRecords it wrote.
C3_AllOrNothing ==
  \A c \in Calls :
    (gen[c].pc = "thrown" /\ OwnedBy(gen[c].projectId, gen[c].userId))
    => RecordsOf(c) = {}

\* C4 (as claimed): a terminated run has persisted records only if its model
\* call succeeded, and then exactly one per variation, numbered
\* 1..variationCount.
C4_OneRecordPerVariation ==
  \A c \in Calls :
    GenTerminated(c) =>
      /\ ~gen[c].modelOk => RecordsOf(c) = {}
      /\ gen[c].modelOk =>
           /\ { g.variation.variationNumber : g \in RecordsOf(c) }
                = 1..gen[c].variationCount
           /\ Cardinality(RecordsOf(c)) = gen[c].variationCount

(***************************************************************************)
(* Properties of the interpretation cache and the asset interpreter        *)
(***************************************************************************)
Last(seq) == seq[Len(seq)]

\* the step returns a result of the current asset of p
Returns(p) == Len(ip'[p].results) = Len(ip[p].results) + 1

\* the values a put was given are the values the row holds
RowHolds(r, a) ==
  /\ r.fileType = a.fileType
  /\ r.interpretation = a.interpretation
  /\ r.processingMethod = a.processingMethod
  /\ r.metadata = a.metadata

\* p completes a direct put in this step, q completed one for the same id
SecondPut(p, q) ==
  /\ p # q
  /\ ip[p].kind = "put" /\ ip[p].pc = "put_write" /\ ip'[p].pc = "done"
  /\ ip[q].kind = "put" /\ ip[q].pc = "done"
  /\ ip[q].put.dropboxFileId = ip[p].put.dropboxFileId

\* C5 (as claimed): after the second of two puts in sequence for one id there
\* is exactly one row for the id and fileType, interpretation,
\* processingMethod and metadata are the second call's.
C5_SecondPutWins ==
  [][ \A p, q \in Procs :
        SecondPut(p, q) =>
          /\ Cardinality(RowsFor(ip[p].put.dropboxFileId)') = 1
          /\ \A r \in RowsFor(ip[p].put.dropboxFileId)' : RowHolds(r, ip[p].put)
    ]_vars

\* both calls interpreted the same uncached file themselves and have returned
RacedOn(p, q) ==
  /\ p # q
  /\ ip[p].pc = "done" /\ ip[p].kind = "interpret"
  /\ ip[q].pc = "done" /\ ip[q].kind = "interpret"
  /\ ip[p].results[1].dropboxFileId = ip[q].results[1].dropboxFileId
  /\ ip[p].results[1].miss /\ ip[p].results[1].interpreted
  /\ ip[q].results[1].miss /\ ip[q].results[1].interpreted

\* C6 (as claimed): two interpretAsset calls that both missed the cache for
\* the same id and both obtained an interpretation both return success=true,
\* and the cache holds exactly one row for the id with one of the two results.
C6_BenignRace ==
  \A p, q \in Procs :
    RacedOn(p, q) =>
      /\ ip[p].results[1].success
      /\ ip[q].results[1].success
      /\ Cardinality(RowsFor(ip[p].results[1].dropboxFileId)) = 1
      /\ \A r \in RowsFor(ip[p].results[1].dropboxFileId) :
           r.interpretation \in { ip[p].results[1].interpretation,
                                  ip[q].results[1].interpretation }

\* C7 (as claimed): when the freshness check of interpretAsset finds a fresh
\* entry, the call returns in that step the entry's interpretation with
\* success=true and fromCache=true, having made no upstream call, and writes
\* nothing to the cache.
C7_FreshHit ==
  [][ \A p \in Procs :
        ( /\ ip[p].pc = "fresh"
          /\ ip'[p] # ip[p]
          /\ EntryFresh(CurAsset(p).dropboxFileId) )
        => /\ Returns(p)
           /\ Last(ip'[p].results).success
           /\ Last(ip'[p].results).fromCache
           /\ Last(ip'[p].results).interpretation =
                getCachedInterpretation(CurAsset(p).dropboxFileId).interpretation
           /\ Last(ip'[p].results).calls = 0
           /\ ~Last(ip'[p].results).wrote
           /\ cache' = cache ]_vars

\* C8: an interpretAsset call that fails returns success=false with an error
\* string, and no step of it inserts or updates a cache row: the cache changes
\* only in a step in which a call returns a successful result.
C8_FailureLeavesCache ==
  [][ \A p \in Procs :
        (ip[p].kind = "interpret" /\ ip'[p] # ip[p]) =>
          /\ (Returns(p) /\ ~Last(ip'[p].results).success)
               => /\ Last(ip'[p].results).error # ""
                  /\ ~Last(ip'[p].results).fromCache
                  /\ ~Last(ip'[p].results).wrote
                  /\ cache' = cache
          /\ ~Returns(p) => cache' = cache ]_vars

\* C8 witness: a call has failed at the transcription stage after the audio
\* extraction succeeded, while the cache holds a row
C8_Witness ==
  \E p \in Procs :
    /\ ip[p].pc = "done" /\ ip[p].kind = "interpret"
    /\ ~ip[p].results[1].success
    /\ ip[p].results[1].error = "Speech transcription failed"
    /\ ip[p].results[1].calls = 2
    /\ cache # {}

Age(r) == now - r.updatedAt

\* C9: isInterpretationFresh(id, maxAgeInDays) is true exactly when a row
\* exists and now - updatedAt <= maxAgeInDays days; a row updated exactly 30
\* days ago is fresh, one updated 30 days and 1 second ago is stale, an id
\* without a row is not fresh.
C9_FreshnessBoundary ==
  \A id \in FileIds :
    /\ \A m \in {0, 1, DefaultMaxAgeInDays} :
         isInterpretationFresh(id, m)
           <=> \E r \in RowsFor(id) : Age(r) <= m * SecondsPerDay
    /\ \A r \in RowsFor(id) :
         /\ Age(r) = 30 * 86400 => isInterpretationFresh(id, 30)
         /\ Age(r) = 30 * 86400 + 1 => ~isInterpretationFresh(id, 30)
    /\ RowsFor(id) = {} => ~isInterpretationFresh(id, 30)

\* C9 witness: one row is exactly 30 days old, another 30 days and 1 second
C9_Witness ==
  \E r1, r2 \in cache :
    /\ Age(r1) = 30 * 86400
    /\ Age(r2) = 30 * 86400 + 1

\* C10: interpretAssets works on one asset at a time and returns one result
\* per asset in input order; a failed asset is a success=false result at its
\* position and the assets after it are still processed.
C10_SequentialBatch ==
  \A p \in Procs :
    ip[p].kind = "interpret" =>
      /\ Len(ip[p].results) <= Len(ip[p].assets)
      /\ IpRunning(p) => ip[p].started = Len(ip[p].results) + 1
      /\ ip[p].pc = "done" =>
           /\ Len(ip[p].results) = Len(ip[p].assets)
           /\ ip[p].started = Len(ip[p].assets)
      /\ \A i \in 1..Len(ip[p].results) :
           /\ ip[p].results[i].dropboxFileId = ip[p].assets[i].dropboxFileId
           /\ ip[p].results[i].fileType = ip[p].assets[i].fileType

\* C10 witness: a list of three whose second asset failed and whose first and
\* third succeeded has been returned
C10_Witness ==
  \E p \in Procs :
    /\ ip[p].pc = "done" /\ ip[p].kind = "interpret"
    /\ Len(ip[p].assets) = 3
    /\ ip[p].results[1].success
    /\ ~ip[p].results[2].success
    /\ ip[p].results[3].success

\* C11 (as claimed): interpreting a video whose audio is silent (the speech
\* service answers with no results or with an empty transcript) returns
\* success=true with the silent-video interpretation, which is cached; it
\* never returns a failure.
C11_SilentVideoSucceeds ==
  \A p \in Procs : \A i \in 1..Len(ip[p].results) :
    ip[p].results[i].speech \in {"no_results", "empty"} =>
      /\ ip[p].results[i].success
      /\ ip[p].results[i].interpretation.kind = "silent"
      /\ ip[p].results[i].wrote

\* C12: in transcribeAudio, once the audio object has been uploaded, the call
\* does not return before it has sent a delete request for the object, on
\* every path (words, no speech, recognition error); the delete request,
\* accepted or rejected, leaves the transcription result as it was.
C12_DeleteBeforeReturn ==
  [][ \A c \in SpeechCalls :
        (sp[c].pc # "done" /\ sp'[c].pc = "done" /\ sp[c].uploads > 0)
        => /\ sp[c].pc = "finally"
           /\ sp'[c].deletes = sp[c].uploads
           /\ sp'[c].result = sp[c].result ]_vars

\* C12 witness: a call that detected no speech has returned that result
\* after a delete request that was rejected, the object still in the bucket
C12_Witness ==
  \E c \in SpeechCalls :
    /\ sp[c].pc = "done"
    /\ sp[c].uploads = 1 /\ sp[c].deletes = 1 /\ sp[c].deleteFailed
    /\ sp[c].gcsUri \in bucket
    /\ sp[c].result.error = "No speech detected in audio"

\* C13 (as claimed): when processProjectAssets, processAssets followed by
\* interpretAssets, or interpretVideo has completed, none of the temp files
\* it created (downloads, extracted audio) exists any more.
C13_NoTempFileLeft ==
  \A t \in TempProcs :
    tp[t].pc \in {"done", "thrown"} => tp[t].created \cap temp = {}

(***************************************************************************)
(* Properties of the Dropbox gateway                                       *)
(***************************************************************************)
\* the expiry of the row the call read is absent or less than 5 minutes away
Expiring(c) ==
  \/ dbx[c].stored.tokenExpiresAt = NullTime
  \/ dbx[c].stored.tokenExpiresAt < now + 5 * 60

\* C14: a gateway call whose credential expires in less than 5 minutes (or
\* has no expiry) sends exactly one refresh request and every listing or
\* download request it sends carries the newly issued token; a call whose
\* credential expires in 5 minutes or more sends no refresh request and its
\* requests carry the stored token.
C14_RefreshWhenExpiring ==
  \A c \in DbxCalls :
    dbx[c].record # "none" =>
      /\ dbx[c].needed <=> Expiring(c)
      /\ dbx[c].refreshCalls =
           IF Expiring(c) /\ dbx[c].stored.refreshToken THEN 1 ELSE 0
      /\ \A k \in 1..Len(dbx[c].requests) :
           IF Expiring(c)
           THEN /\ dbx[c].issued # NoToken
                /\ dbx[c].requests[k].token = dbx[c].issued
           ELSE dbx[c].requests[k].token = dbx[c].stored.accessToken

\* C14 witness: a listing whose credential had 4 minutes 59 seconds left has
\* fetched two pages with the new token
C14_Witness ==
  \E c \in DbxCalls :
    /\ dbx[c].pc = "done" /\ dbx[c].op = "listFiles"
    /\ dbx[c].stored.tokenExpiresAt = now + 299
    /\ Len(dbx[c].requests) = 2
    /\ dbx[c].requests[2].token = dbx[c].issued
    /\ dbx[c].issued # dbx[c].stored.accessToken

RefreshErrors ==
  {"No refresh token available", "Failed to refresh Dropbox token"}

\* C15: a call whose refresh fails (no refresh token, token endpoint not ok)
\* fails without having sent a listing or download request and without
\* changing the stored credentials; a call that needed a refresh sends its
\* first request only in a step that leaves the new token and the new expiry
\* in the credential row.
C15_RefreshFailureFailsCall ==
  [][ \A c \in DbxCalls :
        /\ (dbx[c].pc # "failed" /\ dbx'[c].pc = "failed"
              /\ dbx'[c].error \in RefreshErrors)
             => /\ dbx'[c].requests = <<>>
                /\ creds' = creds
        /\ (dbx[c].requests = <<>> /\ dbx'[c].requests # <<>>
              /\ dbx'[c].needed)
             => /\ dbx'[c].issued # NoToken
                /\ creds'[dbx'[c].record].accessToken = dbx'[c].issued
                /\ creds'[dbx'[c].record].tokenExpiresAt
                     \in {NullTime} \cup {now + e : e \in ExpiresIn \ {0}}
                /\ dbx'[c].requests[1].token = dbx'[c].issued ]_vars

\* C15 witness: a download failed on the token endpoint's answer and the
\* credential still has the token it was connected with
C15_Witness ==
  \E c \in DbxCalls :
    /\ dbx[c].pc = "failed" /\ dbx[c].op = "downloadFile"
    /\ dbx[c].error = "Failed to refresh Dropbox token"
    /\ dbx[c].refreshCalls = 1
    /\ creds[dbx[c].record] = dbx[c].stored

\* C16: with connect, disconnect and gateway calls in sequence, every step
\* of a gateway call that has read a credential works on a row of the
\* caller that is active; no step removes a row; a call that finds no
\* active row fails without a refresh, listing or download request.
C16_OnlyActiveCredential ==
  [][ /\ \A i \in CredIds : creds[i] # NoCred => creds'[i] # NoCred
      /\ \A c \in DbxCalls :
           /\ (dbx'[c] # dbx[c] /\ dbx'[c].record # "none")
                => /\ creds'[dbx'[c].record].isActive
                   /\ creds'[dbx'[c].record].userId = dbx'[c].userId
           /\ (dbx[c].pc = "select" /\ dbx'[c] # dbx[c]
                 /\ \A i \in CredIds :
                      creds[i] # NoCred /\ creds[i].userId = dbx[c].userId
                        => ~creds[i].isActive)
                => /\ dbx'[c].pc = "failed"
                   /\ dbx'[c].refreshCalls = 0
                   /\ dbx'[c].requests = <<>> ]_vars

\* C16 witness: the caller has a disconnected row and an active one, and a
\* listing has completed with the active one
C16_Witness ==
  \E c \in DbxCalls, i, j \in CredIds :
    /\ dbx[c].pc = "done" /\ dbx[c].record = j
    /\ creds[i] # NoCred /\ creds[i].userId = dbx[c].userId
    /\ ~creds[i].isActive
    /\ creds[j].isActive

\* the entries with an allowed extension, by name
AllowedEntry(file) ==
  file \in { [stem |-> "a", ext |-> ".JPG"], [stem |-> "c", ext |-> ".mp4"] }

RECURSIVE AllowedOfPages(_)
AllowedOfPages(ps) ==
  IF ps = <<>> THEN <<>>
  ELSE AllowedOfPages(SubSeq(ps, 1, Len(ps) - 1))
         \o SelectSeq(ps[Len(ps)].entries, AllowedEntry)

\* C17: in listFiles the first request carries no cursor and each further
\* request the cursor of the page before it; a further request is sent
\* exactly when the page says has_more; the call returns the allowed entries
\* of all pages in page order; a non-2xx answer fails the call with the
\* HTTP status.
C17_Pagination ==
  \A c \in DbxCalls :
    dbx[c].op = "listFiles" =>
      LET q == dbx[c]
      IN /\ \A k \in 1..Len(q.requests) :
              q.requests[k].cursor =
                IF k = 1 THEN 0 ELSE q.fetched[k - 1].cursor
         /\ \A k \in 1..Len(q.fetched) :
              q.fetched[k].has_more <=> k < Len(q.requests)
         /\ q.pc = "done" =>
              /\ Len(q.fetched) = Len(q.requests)
              /\ q.allFiles = AllowedOfPages(q.fetched)
         /\ (q.pc = "failed" /\ q.requests # <<>>) =>
              /\ q.error = "Failed to list Dropbox files"
              /\ q.status \in HttpErrors

\* C17 witness: a listing of two pages has returned the .JPG of the first
\* and the .mp4 of the second, without the .txt
C17_Witness ==
  \E c \in DbxCalls :
    /\ dbx[c].pc = "done" /\ dbx[c].op = "listFiles"
    /\ Len(dbx[c].fetched) = 2
    /\ Len(dbx[c].fetched[1].entries) = 2
    /\ dbx[c].allFiles =
         << [stem |-> "a", ext |-> ".JPG"], [stem |-> "c", ext |-> ".mp4"] >>

(***************************************************************************)
(* Properties of the web scraper                                           *)
(***************************************************************************)
\* the step is call c's lookup of a cached row for its url
CacheLookup(c) == sc[c].pc = "cache_read" /\ sc'[c] # sc[c]

\* C18: with useCache, the lookup of a row with now - createdAt <= 7 days
\* returns that row's content; the lookup of an older row returns nothing,
\* the row is deleted in the call's next step and the static scrape follows;
\* every cached result returned was at most 7 days old when it was read.
C18_CacheTtl ==
  [][ \A c \in ScrapeCalls :
        /\ CacheLookup(c) =>
             LET r == PageOf(sc[c].url)
             IN IF r = NoPage THEN sc'[c].pc = "cheerio"
                ELSE IF now - r.createdAt <= 7 * 86400
                     THEN /\ sc'[c].pc = "done" /\ sc'[c].hit
                          /\ sc'[c].result.success
                          /\ sc'[c].result.content = r.content
                     ELSE sc'[c].pc = "cache_delete" /\ ~sc'[c].hit
        /\ (sc[c].pc = "cache_delete" /\ sc'[c] # sc[c])
             => /\ PagesFor(sc[c].url)' = {}
                /\ sc'[c].pc = "cheerio"
        /\ (~sc[c].hit /\ sc'[c].hit) => CacheLookup(c) ]_vars

\* C18 witness: a call has deleted a row that was 7 days and 1 second old
\* and scraped the page afresh
C18_Witness ==
  \E c \in ScrapeCalls :
    /\ sc[c].pc = "done" /\ sc[c].deleted /\ sc[c].cheerio = 1
    /\ sc[c].result.success
    /\ now = 7 * 86400 + 1

\* C19: a call that misses the cache makes the static attempt first and
\* exactly once, and one headless-browser attempt exactly when the static
\* attempt failed or gave fewer than 100 characters; with 100 characters or
\* more the headless browser is not used; a cache hit makes no attempt.
C19_FallbackOnce ==
  \A c \in ScrapeCalls :
    /\ sc[c].cheerio <= 1 /\ sc[c].puppeteer <= 1
    /\ sc[c].puppeteer = 1 => sc[c].cheerio = 1
    /\ sc[c].hit => sc[c].cheerio = 0 /\ sc[c].puppeteer = 0
    /\ (sc[c].cheerio = 1 /\ sc[c].pc \in {"done", "put_check", "put_write"})
         => sc[c].puppeteer =
              IF ~sc[c].static.success \/ sc[c].static.content.length < 100
              THEN 1 ELSE 0
    /\ (sc[c].pc = "done" /\ sc[c].url # InvalidUrl /\ ~sc[c].hit)
         => sc[c].cheerio = 1

\* C19 witness: a static result of 99 characters was followed by one
\* headless-browser attempt, in a call that has returned
C19_Witness ==
  \E c \in ScrapeCalls :
    /\ sc[c].pc = "done"
    /\ sc[c].static.success /\ sc[c].static.content.length = 99
    /\ sc[c].cheerio = 1 /\ sc[c].puppeteer = 1
    /\ sc[c].result.method = "puppeteer"

\* C20 (as claimed): a call that returns a freshly scraped result with
\* success=true, with useCache true or false, returns in a step that leaves
\* a row for the url holding that result in the cache; a step that returns
\* success=false leaves the cache as it is.
C20_SuccessIsCached ==
  [][ \A c \in ScrapeCalls :
        (sc[c].pc # "done" /\ sc'[c].pc = "done" /\ ~sc'[c].hit)
        => IF sc'[c].result.success
           THEN \E r \in PagesFor(sc[c].url)' :
                  r.content = sc'[c].result.content
           ELSE pages' = pages ]_vars

(***************************************************************************)
(* Properties of scraping a list of urls (SpecScrapeBatch)                 *)
(***************************************************************************)
HitCount(results) ==
  Cardinality({ i \in DOMAIN results : results[i].hit })

\* C21 (as claimed): a returned result has processingTime 0 only when it was
\* served from the cache, so the from-cache count of scrapeLandingPages
\* equals the number of urls served from the cache, invalid and failing urls
\* included.
C21_ZeroTimeMeansCached ==
  (sb.proc = "scrapeMultipleUrls" /\ sb.pc = "done")
  => /\ \A i \in DOMAIN sb.results :
          sb.results[i].processingTime = 0 => sb.results[i].hit
     /\ fromCacheCount(sb.results) = HitCount(sb.results)

\* C22: scrapeMultipleUrls works on one url at a time, waits after every
\* request before the next one starts, and returns one result per input url
\* in input order; an invalid url gives success=false at its position and
\* the urls after it are still scraped.
C22_OneResultPerUrl ==
  sb.proc = "scrapeMultipleUrls" =>
    /\ Cardinality({ c \in ScrapeCalls : sc[c].pc \notin {"idle", "done"} })
         <= 1
    /\ Len(sb.results) <= Len(sb.urls)
    /\ \A i \in DOMAIN sb.results :
         /\ sb.results[i].url = sb.urls[i]
         /\ sb.urls[i] = InvalidUrl => ~sb.results[i].success
         /\ (sb.urls[i] # InvalidUrl /\ ~sb.results[i].hit)
              => sb.results[i].fetches >= 1
    /\ sb.pc \in {"call", "await"} => sb.delays = Len(sb.results)
    /\ sb.pc = "delay" => sb.delays + 1 = Len(sb.results)
    /\ sb.pc = "done" => /\ Len(sb.results) = Len(sb.urls)
                         /\ sb.delays = Len(sb.urls)

\* C22 witness: the call has returned for an invalid url followed by a url
\* that was fetched with success
C22_Witness ==
  /\ sb.proc = "scrapeMultipleUrls" /\ sb.pc = "done"
  /\ Len(sb.urls) = 2 /\ sb.urls[1] = InvalidUrl
  /\ ~sb.results[1].success
  /\ sb.results[2].success /\ sb.results[2].fetches >= 1

\* C23 (as claimed): inside one generateForProject run at most one scrape is
\* in flight, and for a project listing the same url twice at most one of
\* the two scrapes fetches it from upstream.
C23_SequentialRun ==
  sb.proc = "generateForProject" =>
    /\ Cardinality({ c \in ScrapeCalls : sc[c].pc \notin {"idle", "done"} })
         <= 1
    /\ (sb.pc = "done" /\ sb.urls[1] = sb.urls[2])
         => ~(sb.results[1].fetches >= 1 /\ sb.results[2].fetches >= 1)

(***************************************************************************)
(* Properties of the prompt templates (SpecTpl, SpecTplSeq)                *)
(***************************************************************************)
\* the default rows of a (promptType, platform) pair, read off the store
DefaultsOf(t, p) ==
  { i \in TemplateIds :
      /\ templates[i] \notin {NoTemplate, Deleted}
      /\ templates[i].isDefault
      /\ templates[i].promptType = t /\ templates[i].platform = p }

\* the same, read off the store the step leaves
DefaultsAfter(t, p) ==
  { i \in TemplateIds :
      /\ templates'[i] \notin {NoTemplate, Deleted}
      /\ templates'[i].isDefault
      /\ templates'[i].promptType = t /\ templates'[i].platform = p }

\* C24: with calls made one after another, a getDefaultTemplate call that
\* finds no default row of its pair creates exactly one default row of that
\* pair and returns it; a call that finds the pair's default row returns
\* that row and creates none.
C24_GetOrCreate ==
  [][ \A k \in TplCalls :
        (tc[k].op = "getDefaultTemplate" /\ tc[k].pc # "done"
           /\ tc'[k].pc = "done")
        => LET D == DefaultsOf(tc[k].promptType, tc[k].platform)
               r == tc'[k].result
           IN IF D = {}
              THEN /\ r \in TemplateIds /\ templates[r] = NoTemplate
                   /\ DefaultsAfter(tc[k].promptType, tc[k].platform) = {r}
                   /\ \A i \in TemplateIds \ {r} :
                        templates'[i] = templates[i]
              ELSE /\ r \in D
                   /\ templates' = templates
                   /\ ~tc'[k].created ]_vars

\* C24 witness: a later call has returned the default row that an earlier
\* call created, and the store holds no other row
C24_Witness ==
  \E k, j \in TplCalls :
    /\ tc[k].op = "getDefaultTemplate" /\ tc[k].pc = "done"
    /\ tc[k].created
    /\ tc[j].op = "getDefaultTemplate" /\ tc[j].pc = "done"
    /\ ~tc[j].created /\ tc[j].result = tc[k].result
    /\ Cardinality({ i \in TemplateIds : templates[i] # NoTemplate }) = 1

\* C25 (as claimed): in every reachable state at most one template with
\* isDefault=true exists per (promptType, platform).
C25_OneDefaultPerPair ==
  \A t \in PromptTypes, p \in Platforms : Cardinality(DefaultsOf(t, p)) <= 1

\* C26: no step removes a row whose isDefault is true, and a deleteTemplate
\* call that reads a default row throws, whoever the caller is, and leaves
\* the store as it is.
C26_DefaultNotDeleted ==
  [][ /\ \A i \in TemplateIds :
           (templates[i] \notin {NoTemplate, Deleted} /\ templates[i].isDefault)
           => (templates'[i] \notin {NoTemplate, Deleted}
                 /\ templates'[i].isDefault)
      /\ \A k \in TplCalls :
           ( /\ tc[k].pc = "d_check" /\ tc'[k] # tc[k]
             /\ tc[k].id \in TemplateIds
             /\ templates[tc[k].id] \notin {NoTemplate, Deleted}
             /\ templates[tc[k].id].isDefault )
           => /\ tc'[k].pc = "done" /\ tc'[k].error # "none"
              /\ templates' = templates ]_vars

\* C26 witness: the owner of a default template was refused its deletion
C26_Witness ==
  \E k \in TplCalls, i \in TemplateIds :
    /\ tc[k].op = "deleteTemplate" /\ tc[k].pc = "done"
    /\ tc[k].error = "Cannot delete default templates"
    /\ templates[i] \notin {NoTemplate, Deleted}
    /\ templates[i].isDefault /\ templates[i].userId \in Users

\* C27: an updateTemplate or deleteTemplate call whose userId is not the
\* row's, or whose id is unknown, throws and leaves the store as it is; a
\* row is modified or deleted only by a call that carries the row's userId.
C27_OwnerOnly ==
  [][ /\ \A i \in TemplateIds :
           (templates[i] \notin {NoTemplate, Deleted}
              /\ templates'[i] # templates[i])
           => \E k \in TplCalls :
                /\ tc[k].op \in {"updateTemplate", "deleteTemplate"}
                /\ tc[k].id = i /\ tc[k].userId = templates[i].userId
                /\ tc'[k].pc = "done" /\ tc[k].pc # "done"
      /\ \A k \in TplCalls :
           ( /\ tc[k].pc \in {"u_check", "d_check"} /\ tc'[k] # tc[k]
             /\ \/ tc[k].id \notin TemplateIds
                \/ templates[tc[k].id] \in {NoTemplate, Deleted}
                \/ templates[tc[k].id].userId # tc[k].userId )
           => /\ tc'[k].pc = "done" /\ tc'[k].error # "none"
              /\ templates' = templates ]_vars

\* C27 witness: a call was refused for want of permission next to a call of
\* the owner that went through
C27_Witness ==
  \E k, j \in TplCalls :
    /\ tc[k].pc = "done" /\ tc[k].error = "no permission"
    /\ tc[j].op = "updateTemplate" /\ tc[j].pc = "done"
    /\ tc[j].error = "none"

(***************************************************************************)
(* Properties of generateFacebookAdCopy (SpecFb)                           *)
(***************************************************************************)
\* the variation type of variation number i
Rotation(i) ==
  CASE (i - 1) % 3 = 0 -> "benefits"
    [] (i - 1) % 3 = 1 -> "pain_agitation"
    [] (i - 1) % 3 = 2 -> "storytelling"

\* C29: generateFacebookAdCopy makes one model call per variation, one
\* after another, and returns variationCount variations numbered
\* 1..variationCount in order, variation i of the type the rotation gives
\* for (i-1) mod 3; a call that throws is replaced by the fallback content
\* of its variation and the other variations are as they would be.
C29_OneCallPerVariation ==
  /\ fb.calls = Len(fb.variations)
  /\ Len(fb.variations) <= fb.variationCount
  /\ fb.pc = "done" => Len(fb.variations) = fb.variationCount
  /\ \A i \in DOMAIN fb.variations :
       /\ fb.variations[i].variationNumber = i
       /\ fb.variations[i].variationType = Rotation(i)
       /\ fb.variations[i].threw
            <=> fb.variations[i].content.headline.src = "fallback"
       /\ fb.variations[i].threw
            => fb.variations[i].content.headline.n = i

\* C29 witness: four variations were returned, the second from a call that
\* threw, the fourth of the first type again
C29_Witness ==
  /\ fb.pc = "done" /\ fb.variationCount = 4
  /\ fb.variations[2].threw /\ ~fb.variations[3].threw
  /\ fb.variations[4].variationType = "benefits"
  /\ ~fb.variations[4].threw

\* C30 (as claimed): whatever the model text, the variations returned are
\* numbered 1..expectedCount and every field the model left out holds a
\* placeholder that embeds the number of its variation.
C30_PlaceholderHasIndex ==
  fb.pc = "done" =>
    /\ Len(fb.variations) = fb.variationCount
    /\ \A i \in DOMAIN fb.variations :
         /\ fb.variations[i].variationNumber = i
         /\ \A f \in {fb.variations[i].content.primaryText,
                       fb.variations[i].content.headline} :
              f.src # "model" => f.n = i

(***************************************************************************)
(* Properties of buildPromptFromTemplate (SpecBp)                          *)
(***************************************************************************)
\* the section of the given list that has id i
GivenSection(i) == bp.given[i]

\* C28: the prompt starts with the systemPrompt, then holds every section
\* of the template exactly once, rendered with the context, in ascending
\* order whatever the stored order; the template's section list is as it
\* was; a second call with the same inputs returns the same prompt.
C28_SortedOnceAndPure ==
  /\ bp.sections = bp.given
  /\ \A c \in DOMAIN bp.out :
       LET prompt == bp.out[c]
           n == Len(bp.given)
       IN /\ Len(prompt) = n + 1
          /\ prompt[1].text = "systemPrompt"
          /\ \A i \in 1..n :
               Cardinality({ j \in 2..(n + 1) : prompt[j].id = i }) = 1
          /\ \A j \in 2..(n + 1) :
               /\ prompt[j].id \in 1..n
               /\ prompt[j] =
                    SectionContent(GivenSection(prompt[j].id), bp.context)
          /\ \A j, k \in 2..(n + 1) :
               j < k => GivenSection(prompt[j].id).order
                          <= GivenSection(prompt[k].id).order
  /\ Len(bp.out) = 2 => bp.out[2] = bp.out[1]

\* C28 witness: two calls were made on a template that stores a section of
\* order 2 before a section of order 1, and the prompt has them swapped
C28_Witness ==
  /\ bp.pc = "done" /\ Len(bp.out) = 2
  /\ Len(bp.given) >= 2
  /\ bp.given[1].order = 2 /\ bp.given[2].order = 1
  /\ bp.out[1][2].id = 2

(***************************************************************************)
(* Further properties of the generation procedure (SpecGen)                *)
(***************************************************************************)
\* the GenerationRecords of project p that hold variation number n
RecordsNumbered(p, n) ==
  { g \in generations :
      g.projectId = p /\ g.variation.variationNumber = n }

\* C37 (as claimed): the GenerationRecords of a project hold at most one
\* record per variationNumber, whatever runs were made on it.
C37_OneRecordPerNumber ==
  \A p \in ProjectIds, n \in 1..MaxVariations :
    Cardinality(RecordsNumbered(p, n)) <= 1

\* the call has set the status to processing and not yet written its final
\* status
InProgress(c) == gen[c].pc \in {"load", "context", "model", "save", "final"}

\* C38 (as claimed): a project's status is processing for as long as a run
\* of its owner on it is in progress.
C38_ProcessingWhileRunning ==
  \A c \in Calls :
    (InProgress(c) /\ OwnedBy(gen[c].projectId, gen[c].userId))
    => StatusOf(c) = "processing"

\* the step is one of call c, made for a project of another user
ForeignStep(c) ==
  /\ gen'[c] # gen[c]
  /\ gen'[c].projectId \in ProjectIds
  /\ projects[gen'[c].projectId] # NoProject
  /\ projects[gen'[c].projectId].userId # gen'[c].userId

\* C39: no step of a generateAdCopy call made for a project of another user
\* changes the project or adds a GenerationRecord to it, and the call does
\* not return: it throws.
C39_ForeignCallChangesNothing ==
  [][ \A c \in Calls :
        ForeignStep(c)
        => /\ projects'[gen'[c].projectId] = projects[gen'[c].projectId]
           /\ generations' = generations
           /\ gen'[c].pc # "returned"
           /\ gen'[c].pc \in {"load", "final", "catch", "thrown"} ]_vars

\* C39 witness: the call for another user's project has thrown while the
\* owner's own run on that project is in progress, the status still
\* processing
C39_Witness ==
  \E c, d \in Calls :
    /\ gen[c].pc = "thrown" /\ apiKey
    /\ gen[c].projectId \in ProjectIds
    /\ projects[gen[c].projectId] # NoProject
    /\ projects[gen[c].projectId].userId # gen[c].userId
    /\ gen[d].projectId = gen[c].projectId
    /\ gen[d].pc = "save"
    /\ projects[gen[c].projectId].status = "processing"

(***************************************************************************)
(* Properties of cleanupCache (SpecScrapeGc)                               *)
(***************************************************************************)
SpecScrapeGc == InitCache /\ [][NextScrapeGc]_vars

\* C35 (as claimed): a cleanupCache call that does not fail deletes every
\* row created before now - maxAgeInDays days, keeps every row created after
\* it, and answers the number of rows it deleted.
C35_DeletesOlderRows ==
  [][ (cc'.calls = cc.calls + 1 /\ ~cc'.threw)
      => /\ \A r \in pages : r.createdAt < cc'.cutoff => r \notin pages'
         /\ \A r \in pages : r.createdAt > cc'.cutoff => r \in pages'
         /\ cc'.rowCount = Cardinality(pages \ pages') ]_vars

(***************************************************************************)
(* Properties of the placeholder replacement (SpecRd)                      *)
(***************************************************************************)
SpecRd == InitCache /\ [][NextRd]_vars

\* the value that stands for a token of the section when values are
\* inserted as they are
ValueOf(token, context) ==
  CASE token = "{projectName}" -> context.projectName
    [] token = "{variationCount}" -> context.variationCount
    [] token = "{variationType}" -> context.variationType
    [] token = "{assetInterpretations}" ->
         IF Len(context.assetInterpretations) > 0
         THEN JoinLabelled("Asset: ", context.assetInterpretations)
         ELSE <<"No assets provided.">>
    [] token = "{landingPageContent}" ->
         IF Len(context.landingPageContent) > 0
         THEN JoinLabelled("Page: ", context.landingPageContent)
         ELSE <<"No landing page content provided.">>
    [] OTHER -> <<token>>

\* every token of the section gives way to its value, once
RECURSIVE Verbatim(_, _)
Verbatim(content, context) ==
  IF content = <<>> THEN <<>>
  ELSE ValueOf(Head(content), context) \o Verbatim(Tail(content), context)

\* C36 (as claimed): the rendered section is the section with each of its
\* placeholders replaced by its value as it is; placeholder text inside a
\* value stays in the prompt unchanged.
C36_ValuesVerbatim ==
  rd.pc = "done" => rd.out = Verbatim(rd.content, rd.context)

(***************************************************************************)
(* The asset procedures of the router (SpecPa)                             *)
(***************************************************************************)
notPa == <<genVars, speechVars, tempVars, dbxVars, scrapeVars, batchVars,
           tplVars, fb, bp, cc, rd, cleanVars>>

\* the procedure is called for a project that holds the asset
PaStart(kind, a) ==
  /\ pa.pc \in {"idle", "done"}
  /\ pa' = [IdlePa EXCEPT !.pc = "check", !.kind = kind, !.asset = a]
  /\ UNCHANGED <<now, cache, ip, notPa>>

\* the procedure reports the asset
Reported(status, fresh) ==
  [pa EXCEPT !.pc = "done", !.status = status, !.freshAtCheck = fresh]

\* processProjectAssets lines 304-323: a row for the file is reported as
\* already_processed; processAssets lines 446-450: getCachedInterpretation
PaCheck ==
  /\ pa.pc = "check"
  /\ LET id == pa.asset.dropboxFileId
         found == getCachedInterpretation(id) # NoRow
     IN pa' = IF ~found THEN [pa EXCEPT !.pc = "download"]
              ELSE IF pa.kind = "processProjectAssets"
              THEN Reported("already_processed", EntryFresh(id))
              ELSE [pa EXCEPT !.pc = "fresh"]
  /\ UNCHANGED <<now, cache, ip, notPa>>

\* processAssets lines 452-464: isInterpretationFresh, and fromCache: true
PaFresh ==
  /\ pa.pc = "fresh"
  /\ LET id == pa.asset.dropboxFileId
     IN pa' = IF isInterpretationFresh(id, DefaultMaxAgeInDays)
              THEN Reported("fromCache", EntryFresh(id))
              ELSE [pa EXCEPT !.pc = "download"]
  /\ UNCHANGED <<now, cache, ip, notPa>>

\* downloadFile (processProjectAssets lines 327-345, processAssets lines
\* 466-478), then interpretAsset is called: by processProjectAssets at once
\* (lines 348-353), by interpretAssets for the asset processAssets gave a
\* localPath (lines 538-556)
PaDownload(ok) ==
  /\ pa.pc = "download"
  /\ IF ok
     THEN /\ pa' = [pa EXCEPT !.pc = "interpret"]
          /\ ip' = [ip EXCEPT ![PaProc] =
               [IdleProc EXCEPT !.kind = "interpret", !.pc = "lookup",
                                !.assets = <<pa.asset>>, !.started = 1]]
     ELSE /\ pa' = Reported(IF pa.kind = "processProjectAssets"
                            THEN "download_failed" ELSE "thrown", FALSE)
          /\ UNCHANGED ip
  /\ UNCHANGED <<now, cache, notPa>>

\* interpretAsset has returned (processProjectAssets lines 366-387,
\* interpretAssets lines 554-575)
PaCollect ==
  /\ pa.pc = "interpret"
  /\ ip[PaProc].pc = "done"
  /\ LET r == ip[PaProc].results[1]
     IN pa' = Reported(IF ~r.success THEN "interpretation_failed"
                       ELSE IF r.fromCache THEN "fromCache" ELSE "success",
                       r.freshSeen)
  /\ ip' = [ip EXCEPT ![PaProc] = IdleProc]
  /\ UNCHANGED <<now, cache, notPa>>

NextPa ==
  \/ \E d \in {1, DefaultMaxAgeInDays * SecondsPerDay} : Tick(d)
  \/ \E kind \in PaProcedures, a \in Assets : PaStart(kind, a)
  \/ PaCheck
  \/ PaFresh
  \/ \E ok \in BOOLEAN : PaDownload(ok)
  \/ IpStep(PaProc)
  \/ PaCollect

SpecPa == InitCache /\ [][NextPa]_vars

\* C34 (as claimed): a procedure reports an asset as already processed, or
\* answers it from the cache, only when the cached entry was within the
\* 30-day TTL at the time of the check.
C34_FreshBeforeSkip ==
  (pa.pc = "done" /\ pa.status \in {"already_processed", "fromCache"})
  => pa.freshAtCheck

(***************************************************************************)
(* Properties of the cleanup monitor (SpecClean, SpecCleanTwo)             *)
(***************************************************************************)
SpecClean == InitCache /\ [][NextClean]_vars
SpecCleanTwo == InitCache /\ [][NextCleanTwo]_vars

\* the files, and the objects, that are there before the step and not after
Unlinked == Present(tmpdir) \ Present(tmpdir')
DeletedObjects == Present(gcs) \ Present(gcs')

\* C31: a step of a performCleanup run removes a temp file or a bucket
\* object only if the run flagged it; a file is flagged only when its mtime
\* is more than one hour before the scan, an object only when it has a
\* creation time and that is more than one hour before the scan.
C31_OnlyFlaggedDeleted ==
  [][ \A m \in CmRuns :
        cm'[m] # cm[m]
        => /\ Unlinked \subseteq cm[m].tempFound
           /\ DeletedObjects \subseteq cm[m].gcsFound
           /\ \A f \in cm'[m].tempFound \ cm[m].tempFound :
                now - tmpdir[f].time > OneHour
           /\ \A o \in cm'[m].gcsFound \ cm[m].gcsFound :
                gcs[o].meta /\ cm[m].scanNow - gcs[o].time > OneHour ]_vars

\* C31 witness: the run has deleted a file and an object, and an object
\* without creation time, written more than an hour ago, is still there
C31_Witness ==
  /\ cm["m1"].pc = "done"
  /\ cm["m1"].tempCleaned # {}
  /\ cm["m1"].gcsCleaned # {}
  /\ \E o \in Present(gcs) : ~gcs[o].meta /\ now - gcs[o].time > OneHour

\* C32 (as claimed): in the report of a run every flagged file and every
\* flagged object is in exactly one of cleaned and failed, and
\* cleanupSuccess says that both failed lists are empty.
C32_EveryFlaggedReported ==
  \A m \in CmRuns :
    cm[m].pc = "done" =>
      LET r == Report(m)
      IN /\ r.tempFiles.cleaned \cup r.tempFiles.failed = r.tempFiles.found
         /\ r.tempFiles.cleaned \cap r.tempFiles.failed = {}
         /\ r.gcsFiles.cleaned \cup r.gcsFiles.failed = r.gcsFiles.found
         /\ r.gcsFiles.cleaned \cap r.gcsFiles.failed = {}
         /\ r.cleanupSuccess
              <=> (r.tempFiles.failed = {} /\ r.gcsFiles.failed = {})

\* C33 (as claimed): of two interleaving runs, neither reports an object as
\* failed because the other run has deleted it.
C33_NoFailureFromOtherRun ==
  [][ \A m \in CmRuns, o \in Objects :
        (o \in cm'[m].gcsFailed /\ o \notin cm[m].gcsFailed
           /\ gcs[o].state = "gone")
        => ~ \E n \in CmRuns \ {m} : o \in cm[n].gcsCleaned ]_vars

\* C40 (as claimed): a file recorded in Asset.localPath and the object of a
\* transcription in progress are there whenever the pipeline reads them.
C40_NothingMissing == pl.missing = {}

====
